---- MODULE Spec2Model ----
(***************************************************************************)
(* Model of the preconfirmation bidder (primev/preconf_bot).               *)
(*                                                                         *)
(*   - the Orchestrator loop of main.go (startup, header loop, reconnect), *)
(*   - the Connection Manager of internal/mevcommit/client.go,             *)
(*   - the Bid Transport of internal/mevcommit/bidderapi.go                *)
(*     (SendPreconfBid / Bidder.SendBid),                                  *)
(*   - the outcome of the Transaction Builder of internal/eth/sendtx.go    *)
(*     and of the relay call of internal/eth/bundle.go.                    *)
(*                                                                         *)
(* Go strings are sequences of one-character strings, byte slices are      *)
(* sequences of 0..255, a nil pointer / nil slice is NoTx / <<>>.          *)
(***************************************************************************)
EXTENDS Integers, Sequences, FiniteSets, TLC

(***************************************************************************)
(* Bounds of the model (not program constants).                            *)
(***************************************************************************)
\* longest list handed to SendBid by the transport harness
MaxListLen == 2
\* accepted-commitment messages a bidder stream delivers before it ends
MaxMsgs == 1
\* Recv calls made on one stream before the model stops counting
MaxRecv == 3
\* consecutive dial failures inside one ConnectWSClient call
MaxDialFails == 1
\* subscription errors (hence ReconnectWSClient calls) in one run
MaxReconnects == 1
\* headers delivered on the header channel in one run
MaxHeaders == 2
\* largest ETH amount, in quarters of one ETH
MaxQuarters == 4
\* largest value of the normal sample drawn by main, in quarters of one ETH
MaxSample == 2
\* configured bid amount (FlagBidAmount), in quarters of one ETH
BidAmount == 1
\* largest configured blob count (FlagNumBlob)
MaxNumBlob == 1
\* largest configured block offset (FlagOffset)
MaxOffset == 1
\* distinct blob contents randBlobs can draw
MaxBlobValue == 2

(***************************************************************************)
(* Program constants.                                                      *)
(***************************************************************************)
\* main.go:337  bb.ConnectRPCClientWithRetries(rpcEndpoint, 5, timeout)
RpcMaxRetries == 5
\* client.go:190  for i := 0; i < 10; i++
ReconnectMaxAttempts == 10
\* first block number delivered by the subscription in the model
BaseBlock == 100
\* main: default of --priority-fee
PriorityFeeFlag == 1

(***************************************************************************)
(* Go values.                                                              *)
(***************************************************************************)
\* a nil *types.Transaction
NoTx == [nil |-> TRUE, id |-> 0, enc |-> <<>>, marshalOK |-> FALSE]

\* *types.Transaction values: enc is the binary encoding MarshalBinary
\* yields, marshalOK tells whether MarshalBinary returns it or an error
Txs ==
  { [nil |-> FALSE, id |-> 1, enc |-> <<2, 171>>, marshalOK |-> TRUE],
    [nil |-> FALSE, id |-> 2, enc |-> <<3, 15, 240>>, marshalOK |-> TRUE],
    [nil |-> FALSE, id |-> 3, enc |-> <<>>, marshalOK |-> FALSE] }

\* transaction-hash strings, with and without the 0x prefix
HashStrings ==
  { <<"0", "x", "a", "b", "c">>,
    <<"a", "b", "c">>,
    <<"0", "x", "0", "x", "d">>,
    <<"0", "x">> }

HexDigit == <<"0", "1", "2", "3", "4", "5", "6", "7",
              "8", "9", "a", "b", "c", "d", "e", "f">>

DecDigit == <<"0", "1", "2", "3", "4", "5", "6", "7", "8", "9">>

\* variant: the prefix is kept
TrimPrefixKept(s) == s

\* strings.TrimPrefix(s, "0x")
TrimPrefix0x(s) ==
  IF Len(s) >= 2 /\ s[1] = "0" /\ s[2] = "x" THEN SubSeq(s, 3, Len(s)) ELSE s

\* hex.EncodeToString(b): two lower-case hex digits per byte
RECURSIVE HexEncodeToString(_)
HexEncodeToString(b) ==
  IF b = <<>> THEN <<>>
  ELSE <<HexDigit[(b[1] \div 16) + 1], HexDigit[(b[1] % 16) + 1]>>
         \o HexEncodeToString(Tail(b))

\* signedTx.Hash().String(): "0x" followed by the hex digits of the hash;
\* the hash of a transaction is a digest of its encoding, modelled by the
\* encoding itself
TxHashString(tx) == <<"0", "x">> \o HexEncodeToString(tx.enc)

\* strconv.FormatUint(n, 16): lower-case hex digits, no leading zeros
RECURSIVE FormatHex(_)
FormatHex(n) ==
  IF n < 16 THEN <<HexDigit[n + 1]>>
  ELSE FormatHex(n \div 16) \o <<HexDigit[(n % 16) + 1]>>

\* hexutil.EncodeUint64(n): "0x" followed by the hex digits of n
EncodeUint64(n) == <<"0", "x">> \o FormatHex(n)

\* big.Int.String() of a natural number
RECURSIVE IntString(_)
IntString(n) ==
  IF n < 10 THEN <<DecDigit[n + 1]>>
  ELSE IntString(n \div 10) \o <<DecDigit[(n % 10) + 1]>>

RECURSIVE Zeros(_)
Zeros(k) == IF k = 0 THEN <<>> ELSE <<"0">> \o Zeros(k - 1)

\* SendPreconfBid's conversion of an ETH amount to a wei decimal string:
\* big.Float(eth) * big.Float(1e18), truncated to big.Int, printed in base
\* 10.  The amount is q quarters of one ETH (exact in a float64), so the
\* product q * 25 * 10^16 is exact; it is written digit by digit because it
\* exceeds the range of the model checker's integers.
EthToWeiString(q) ==
  IF q = 0 THEN <<"0">> ELSE IntString(q * 25) \o Zeros(16)


(***************************************************************************)
(* Floating-point amounts.  A float64 and a big.Float of precision 53 are  *)
(* records [neg, man, exp] of value (-1)^neg * man * 2^exp; man is a       *)
(* natural number written as its list of binary digits, least significant *)
(* first and without leading zeros, because it exceeds the range of the    *)
(* model checker's integers.                                               *)
(***************************************************************************)
\* the precision big.NewFloat gives a big.Float, that of a float64
FloatPrec == 53

\* b without its leading zeros
StripZeros(b) ==
  IF \A i \in 1..Len(b) : b[i] = 0 THEN <<>>
  ELSE SubSeq(b, 1, CHOOSE n \in 1..Len(b) :
                      b[n] = 1 /\ \A i \in (n + 1)..Len(b) : b[i] = 0)

\* b + 1
Increment(b) ==
  IF \A i \in 1..Len(b) : b[i] = 1
    THEN [i \in 1..(Len(b) + 1) |-> IF i = Len(b) + 1 THEN 1 ELSE 0]
    ELSE LET z == CHOOSE n \in 1..Len(b) :
                    b[n] = 0 /\ \A i \in 1..(n - 1) : b[i] = 1
         IN [i \in 1..Len(b) |-> IF i < z THEN 0 ELSE IF i = z THEN 1 ELSE b[i]]

\* b * 2^k
ShiftLeft(b, k) ==
  IF b = <<>> THEN <<>>
  ELSE [i \in 1..(Len(b) + k) |-> IF i <= k THEN 0 ELSE b[i - k]]

\* b \div 2^k
ShiftRight(b, k) ==
  IF k >= Len(b) THEN <<>> ELSE SubSeq(b, k + 1, Len(b))

\* the binary digits of the number whose digit of weight 2^(i-1) is the
\* small number c[i], from digit i on, with carry coming in
RECURSIVE Carried(_, _, _)
Carried(c, i, carry) ==
  IF i > Len(c)
    THEN IF carry = 0 THEN <<>>
         ELSE <<carry % 2>> \o Carried(c, i, carry \div 2)
    ELSE <<(c[i] + carry) % 2>> \o Carried(c, i + 1, (c[i] + carry) \div 2)

\* a * b: the column sums of the long multiplication, then the carries
MulBits(a, b) ==
  IF a = <<>> \/ b = <<>> THEN <<>>
  ELSE LET c == [k \in 1..(Len(a) + Len(b) - 1) |->
                  Cardinality({i \in 1..Len(a) :
                                 /\ k + 1 - i \in 1..Len(b)
                                 /\ a[i] = 1
                                 /\ b[k + 1 - i] = 1})]
       IN Carried(c, 1, 0)

\* a < b
LessBits(a, b) ==
  IF Len(a) # Len(b) THEN Len(a) < Len(b)
  ELSE \E i \in 1..Len(a) :
         /\ a[i] < b[i]
         /\ \A j \in (i + 1)..Len(a) : a[j] = b[j]

\* the binary digits of a list of hexadecimal digits, most significant
\* digit first
HexBits(d) ==
  StripZeros([i \in 1..(4 * Len(d)) |->
                LET h == d[Len(d) - ((i - 1) \div 4)]
                    w == (i - 1) % 4
                IN (h \div (IF w = 0 THEN 1 ELSE IF w = 1 THEN 2
                            ELSE IF w = 2 THEN 4 ELSE 8)) % 2])

\* the float64 with the mantissa digits d (hexadecimal, 53 bits) and the
\* binary exponent e of its leading bit: 0x1.ddd...p+e
Float64(neg, d, e) ==
  [neg |-> neg, man |-> HexBits(d), exp |-> e - 52]

\* big.Float rounding of p * 2^e to FloatPrec bits, to nearest, ties to
\* even (the mode of a big.Float made by big.NewFloat)
RoundToPrec(p, e) ==
  IF Len(p) <= FloatPrec THEN [neg |-> FALSE, man |-> p, exp |-> e]
  ELSE LET k == Len(p) - FloatPrec
           q == ShiftRight(p, k)
           sticky == \E i \in 1..(k - 1) : p[i] = 1
           up == p[k] = 1 /\ (sticky \/ q[1] = 1)
       IN [neg |-> FALSE,
           man |-> IF up THEN Increment(q) ELSE q,
           exp |-> e + k]

\* new(big.Float).Mul(x, y) for non-negative x and y of precision 53
FloatMul(x, y) == RoundToPrec(MulBits(x.man, y.man), x.exp + y.exp)

\* x.Int(z): the integer part of a non-negative x
FloatInt(x) ==
  IF x.exp >= 0 THEN ShiftLeft(x.man, x.exp)
  ELSE ShiftRight(x.man, 0 - x.exp)

\* x < y
FloatLess(x, y) ==
  IF x.neg # y.neg THEN x.neg
  ELSE LET e == IF x.exp < y.exp THEN x.exp ELSE y.exp
           a == ShiftLeft(x.man, x.exp - e)
           b == ShiftLeft(y.man, y.exp - e)
       IN IF x.neg THEN LessBits(b, a) ELSE LessBits(a, b)

\* math.Max(x, y)
MathMax(x, y) == IF FloatLess(x, y) THEN y ELSE x

\* big.NewFloat(1e18): 10^18 = 5^18 * 2^18 with 5^18 = 0x3782DACE9D9,
\* exact in 53 bits
WeiPerEth ==
  [neg |-> FALSE, man |-> HexBits(<<3, 7, 8, 2, 13, 10, 12, 14, 9, 13, 9>>),
   exp |-> 18]

\* SendPreconfBid: the integer wei amount of an ETH amount,
\* big.Float(eth) * big.Float(1e18) cut to its integer part
RandomWeiAmount(eth) == FloatInt(FloatMul(eth, WeiPerEth))


(***************************************************************************)
(* Transaction Builder: SelfETHTransfer, ExecuteBlobTransaction,           *)
(* makeSidecar.                                                            *)
(***************************************************************************)
\* a nil *big.Int passed as priorityFeeGwei
NilFee == -1

\* no transaction returned
NoBuiltTx == [type |-> 0]

\* os.Getenv("PRIORITY_FEE_GWEI") is empty or does not parse
UnsetEnv == -2

\* init(): defaultPriorityFeeGwei is big.NewInt(1) unless the environment
\* variable PRIORITY_FEE_GWEI holds an integer
InitDefaultPriorityFee(env) == IF env = UnsetEnv THEN 1 ELSE env

\* the calls a build makes, in the order of the source
SelfETHTransferSteps ==
  <<"PendingNonceAt", "HeaderByNumber", "NetworkID", "SignTx">>

ExecuteBlobTransactionSteps ==
  <<"PendingNonceAt", "HeaderByNumber", "NetworkID", "CalcBlobFee",
    "randBlobs", "makeSidecar", "Signer">>

\* the call at which an outcome ends the build ("none": it runs to its
\* end); signing is the last call of either build
FailingStep(steps, outcome) ==
  CASE outcome = "nonceErr" -> "PendingNonceAt"
    [] outcome = "headerErr" -> "HeaderByNumber"
    [] outcome = "chainIDErr" -> "NetworkID"
    [] outcome = "nilBlobGas" -> "CalcBlobFee"
    [] outcome = "signErr" -> steps[Len(steps)]
    [] OTHER -> "none"

\* variant: an error branch does not return
StepsRunOn(steps, failing) == steps

\* the calls made when the build ends at the call named failing: every
\* error branch returns at once
RECURSIVE StepsRun(_, _)
StepsRun(steps, failing) ==
  IF steps = <<>> THEN <<>>
  ELSE IF steps[1] = failing THEN <<steps[1]>>
  ELSE <<steps[1]>> \o StepsRun(Tail(steps), failing)

\* what a build hands back when it does not return a transaction: an error
\* return (nil, 0, err), or no return at all when it panics
FailedBuild(outcome, steps) ==
  [tx |-> NoBuiltTx, blockNumber |-> 0,
   err |-> IF outcome = "nilBlobGas" THEN "none" ELSE outcome,
   panics |-> outcome = "nilBlobGas",
   steps |-> steps]

\* variant: the offset is not added
TargetBlockNoOffset(latest, off) == latest

\* return signedTx, blockNumber + offset, nil
TargetBlock(latest, off) == latest + off

\* variant: the fee is taken as gwei
TransferPriorityFeeInGwei(priorityFeeGwei, default) ==
  IF priorityFeeGwei = NilFee THEN default ELSE priorityFeeGwei * 1000000000

\* SelfETHTransfer: priorityFee = priorityFeeGwei * 1, or the default
TransferPriorityFee(priorityFeeGwei, default) ==
  IF priorityFeeGwei = NilFee THEN default ELSE priorityFeeGwei * 1

\* ExecuteBlobTransaction: priorityFee = priorityFeeGwei * 1_000_000_000,
\* or the default
BlobPriorityFee(priorityFeeGwei, default) ==
  IF priorityFeeGwei = NilFee THEN default ELSE priorityFeeGwei * 1000000000

\* SelfETHTransfer(client, authAcct, value, offset, priorityFeeGwei).
\* env holds what the node answers: outcome, nonce, latest (number of the
\* latest header), baseFee, chainID.
SelfETHTransfer(authAcct, value, off, priorityFeeGwei, default, env) ==
  LET steps == StepsRun(SelfETHTransferSteps,
                        FailingStep(SelfETHTransferSteps, env.outcome))
      priorityFee == TransferPriorityFee(priorityFeeGwei, default)
  IN IF env.outcome # "ok"
       THEN FailedBuild(env.outcome, steps)
       ELSE [tx |-> [type |-> 2,
                     chainID |-> env.chainID,
                     from |-> authAcct.keyAddress,
                     nonce |-> env.nonce,
                     to |-> authAcct.address,
                     value |-> value,
                     gas |-> 1000000,
                     gasFeeCap |-> env.baseFee + priorityFee,
                     gasTipCap |-> priorityFee],
             blockNumber |-> TargetBlock(env.latest, off),
             err |-> "none",
             panics |-> FALSE,
             steps |-> steps]

\* kzg4844.BlobToCommitment: the commitment is a function of the blob
BlobToCommitment(blob) == [commitmentOf |-> blob]

\* kzg4844.ComputeBlobProof: the proof is a function of blob and commitment
ComputeBlobProof(blob, c) == [proofOf |-> blob, under |-> c]

\* kzg4844.CalcBlobHashV1: the versioned hash of a commitment
CalcBlobHashV1(c) == [version |-> 1, sha256 |-> c]

\* makeSidecar: one commitment and one proof appended per blob, in order
RECURSIVE makeSidecarFrom(_, _, _)
makeSidecarFrom(rest, commitments, proofs) ==
  IF rest = <<>> THEN [commitments |-> commitments, proofs |-> proofs]
  ELSE LET c == BlobToCommitment(rest[1])
           p == ComputeBlobProof(rest[1], c)
       IN makeSidecarFrom(Tail(rest), Append(commitments, c),
                          Append(proofs, p))

makeSidecar(blobs) ==
  LET cp == makeSidecarFrom(blobs, <<>>, <<>>) IN
    [blobs |-> blobs, commitments |-> cp.commitments, proofs |-> cp.proofs]

\* variant: the hashes are listed in the reverse order
BlobHashesReversed(sideCar) ==
  [i \in 1..Len(sideCar.commitments) |->
     CalcBlobHashV1(sideCar.commitments[Len(sideCar.commitments) + 1 - i])]

\* sideCar.BlobHashes(): one versioned hash per commitment, in order
BlobHashes(sideCar) ==
  [i \in 1..Len(sideCar.commitments) |-> CalcBlobHashV1(sideCar.commitments[i])]

\* variant: the fee is not raised by one before the increase
BlobFeeCapNoIncrement(blobFee) == (blobFee * 110) \div 100

\* blobFeeCap: CalcBlobFee(...) + 1, then times 110 / 100
BlobFeeCap(blobFee) == ((blobFee + 1) * 110) \div 100

\* ExecuteBlobTransaction(client, authAcct, numBlobs, offset,
\* priorityFeeGwei).  env also holds blobFee (what CalcBlobFee yields for
\* the header) and blobs (the numBlobs blobs randBlobs draws).
ExecuteBlobTransaction(authAcct, off, priorityFeeGwei, default, env) ==
  LET steps == StepsRun(ExecuteBlobTransactionSteps,
                        FailingStep(ExecuteBlobTransactionSteps, env.outcome))
      priorityFee == BlobPriorityFee(priorityFeeGwei, default)
      sideCar == makeSidecar(env.blobs)
  IN IF env.outcome # "ok"
       THEN FailedBuild(env.outcome, steps)
       ELSE [tx |-> [type |-> 3,
                     chainID |-> env.chainID,
                     from |-> authAcct.keyAddress,
                     nonce |-> env.nonce,
                     gasTipCap |-> priorityFee,
                     gasFeeCap |-> env.baseFee + priorityFee,
                     gas |-> 1000000,
                     to |-> authAcct.keyAddress,
                     blobFeeCap |-> BlobFeeCap(env.blobFee),
                     blobHashes |-> BlobHashes(sideCar),
                     sidecar |-> sideCar],
             blockNumber |-> TargetBlock(env.latest, off),
             err |-> "none",
             panics |-> FALSE,
             steps |-> steps]


(***************************************************************************)
(* State.                                                                  *)
(***************************************************************************)
VARIABLES
  \* ---- configuration read by main (fixed during a run)
  usePayload,       \* main.go:  c.Bool(FlagUsePayload)
  numBlob,          \* main.go:  c.Uint(FlagNumBlob)
  offset,           \* main.go:  c.Uint64(FlagOffset)
  hasDeadline,      \* main.go:  runDurationMinutes > 0
  \* ---- main's control state
  pc,               \* position of main
  term,             \* why main ended ("none" while it runs)
  acct,             \* main's authAcct: NoAcct until AuthenticateAddress
                    \* returns one
  deadlinePassed,   \* time.Now().After(endTime)
  \* ---- connection manager
  rpcClient,        \* "none" (nil) or "handle"
  rpcAttempts,      \* DialContext calls made by ConnectRPCClientWithRetries
  rpcSleeps,        \* pauses ConnectRPCClientWithRetries has slept, in
                    \* seconds, in order
  wsDialFails,      \* failed dials of the running ConnectWSClient call
  wsClient,         \* handle held by main: 0 = nil, 1 = the startup handle,
                    \* k + 1 = a handle dialled by the k-th ReconnectWSClient
  sub,              \* handle the watched subscription lives on, 0 = nil
  activeSubs,       \* handles of the live subscriptions that deliver into
                    \* the headers channel, one entry per subscription
  rcAttempts,       \* SubscribeNewHead calls made by ReconnectWSClient
  rcResult,         \* ReconnectWSClient: "idle", "running", "pair", "none"
  reconnects,       \* ReconnectWSClient calls so far
  \* ---- per-header state of the loop body
  headersTaken,     \* headers received from the channel so far
  header,           \* number of the header being processed, 0 = none
  signedTx,         \* result of the build: a transaction or NoTx
  blockNumber,      \* target block returned by the build
  err,              \* main's err variable: "none" or an error name
  randomEthAmount,  \* sampled bid amount, in quarters of one ETH
  relayed,          \* eth_sendBundle requests sent, in order
  buildTrace,       \* the calls the last build made and the header it read
  \* ---- bid transport (SendPreconfBid / Bidder.SendBid)
  caller,           \* "none", "SendPreconfBid" or "SendBid" (entry point)
  spbCall,          \* arguments of the SendPreconfBid call made
  bpc,              \* "idle", "recvLoop", "finalRecv", "done"
  sendBidCalls,     \* arguments of the SendBid calls made, in order
  sendBidErr,       \* error returned by the last SendBid: "none", ...
  bidRequests,      \* pb.Bid requests handed to client.SendBid, in order
  marshalCalls,     \* MarshalBinary calls made by SendBid
  streamState,      \* "none", "open", "eof", "failed"
  recvCalls,        \* Recv calls made on the current stream
  lastRecv,         \* result of the last Recv: "none", "msg", "eof", "err"
  accepted,         \* commitment messages logged as accepted
  \* ---- direct calls of the builder and of the amount computation
  buildCall,        \* arguments and result of the last direct build call
  sampling          \* arguments and result of the last amount computation

cfgVars == <<usePayload, numBlob, offset, hasDeadline>>
connVars == <<rpcClient, rpcAttempts, rpcSleeps, wsDialFails, wsClient, sub, activeSubs,
              rcAttempts, rcResult, reconnects>>
loopVars == <<headersTaken, header, signedTx, blockNumber, err,
              randomEthAmount, relayed, buildTrace>>
bidVars == <<caller, spbCall, bpc, sendBidCalls, sendBidErr, bidRequests,
             marshalCalls, streamState, recvCalls, lastRecv, accepted>>
pureVars == <<buildCall, sampling>>
vars == <<cfgVars, acct, pc, term, deadlinePassed, connVars, loopVars, bidVars,
          pureVars>>


(***************************************************************************)
(* Bid Transport: Bidder.SendBid.                                          *)
(***************************************************************************)
\* dynamic values handed to SendPreconfBid / SendBid as interface{}
StringListInput(v) == [type |-> "[]string", val |-> v]
TxListInput(v) == [type |-> "[]*types.Transaction", val |-> v]
StringInput(v) == [type |-> "string", val |-> v]
TxInput(v) == [type |-> "*types.Transaction", val |-> v]
IntInput(v) == [type |-> "int", val |-> v]

\* case []string: txHashes[i] = strings.TrimPrefix(hash, "0x")
TrimAll(v) == [i \in 1..Len(v) |-> TrimPrefix0x(v[i])]

\* variant: a transaction MarshalBinary rejects is left out and the loop
\* goes on
MarshalAllSkipsRejected(v) ==
  LET ok == SelectSeq(v, LAMBDA t : t.marshalOK) IN
    [err |-> "none",
     raw |-> [i \in 1..Len(ok) |-> HexEncodeToString(ok[i].enc)],
     calls |-> Len(v)]

\* case []*types.Transaction: the marshalling loop; it stops at the first
\* transaction MarshalBinary rejects.  calls = MarshalBinary calls made.
RECURSIVE MarshalAll(_)
MarshalAll(v) ==
  IF v = <<>> THEN [err |-> "none", raw |-> <<>>, calls |-> 0]
  ELSE IF ~v[1].marshalOK THEN [err |-> "marshal", raw |-> <<>>, calls |-> 1]
  ELSE LET r == MarshalAll(Tail(v)) IN
         [err |-> r.err,
          raw |-> IF r.err = "none"
                    THEN <<HexEncodeToString(v[1].enc)>> \o r.raw ELSE <<>>,
          calls |-> r.calls + 1]

\* variant: the default case falls through with nothing to send
SendBidParseLenient(input) ==
  CASE input.type = "[]string" ->
         [err |-> "none", txHashes |-> TrimAll(input.val),
          rawTransactions |-> <<>>, calls |-> 0]
    [] input.type = "[]*types.Transaction" ->
         LET m == MarshalAll(input.val) IN
           [err |-> m.err, txHashes |-> <<>>,
            rawTransactions |-> m.raw, calls |-> m.calls]
    [] OTHER ->
         [err |-> "none", txHashes |-> <<>>,
          rawTransactions |-> <<>>, calls |-> 0]

\* the type switch of SendBid on its input
SendBidParse(input) ==
  CASE input.type = "[]string" ->
         [err |-> "none", txHashes |-> TrimAll(input.val),
          rawTransactions |-> <<>>, calls |-> 0]
    [] input.type = "[]*types.Transaction" ->
         LET m == MarshalAll(input.val) IN
           [err |-> m.err, txHashes |-> <<>>,
            rawTransactions |-> m.raw, calls |-> m.calls]
    [] OTHER ->
         [err |-> "unsupported", txHashes |-> <<>>,
          rawTransactions |-> <<>>, calls |-> 0]

\* bidRequest := &pb.Bid{...}; a field left unset is the empty list
BidRequest(amount, blk, decayStart, decayEnd, txHashes, rawTransactions) ==
  [amount |-> amount,
   blockNumber |-> blk,
   decayStart |-> decayStart,
   decayEnd |-> decayEnd,
   txHashes |-> IF Len(txHashes) > 0 THEN txHashes ELSE <<>>,
   rawTransactions |->
     IF Len(txHashes) > 0 THEN <<>>
     ELSE IF Len(rawTransactions) > 0 THEN rawTransactions ELSE <<>>]

\* SendBid from its entry to its first Recv (or to its error return).
\* openOK: whether b.client.SendBid opens the stream or returns an error.
SendBidStart(input, amount, blk, decayStart, decayEnd, openOK) ==
  LET p == SendBidParse(input) IN
    /\ sendBidCalls' = Append(sendBidCalls,
                              [input |-> input, amount |-> amount,
                               blockNumber |-> blk,
                               decayStart |-> decayStart,
                               decayEnd |-> decayEnd])
    /\ marshalCalls' = marshalCalls + p.calls
    /\ recvCalls' = 0
    /\ lastRecv' = "none"
    /\ accepted' = 0
    /\ IF p.err # "none"
         THEN /\ sendBidErr' = p.err
              /\ bidRequests' = bidRequests
              /\ streamState' = "none"
              /\ bpc' = "done"
         ELSE /\ bidRequests' =
                   Append(bidRequests,
                          BidRequest(amount, blk, decayStart, decayEnd,
                                     p.txHashes, p.rawTransactions))
              /\ IF openOK
                   THEN /\ sendBidErr' = "none"
                        /\ streamState' = "open"
                        /\ bpc' = "recvLoop"
                   ELSE /\ sendBidErr' = "open"
                        /\ streamState' = "none"
                        /\ bpc' = "done"

\* what response.Recv() can return in the current state of the stream: an
\* ended stream keeps returning io.EOF, an aborted one keeps returning its
\* error
RecvResults ==
  CASE streamState = "open" ->
         {"eof", "err"} \cup (IF accepted < MaxMsgs THEN {"msg"} ELSE {})
    [] streamState = "eof" -> {"eof"}
    [] streamState = "failed" -> {"err"}
    [] OTHER -> {}

StreamAfter(r) ==
  CASE r = "eof" -> "eof"
    [] r = "err" -> "failed"
    [] OTHER -> streamState

CountRecv == IF recvCalls < MaxRecv THEN recvCalls + 1 ELSE recvCalls

\* where SendBid's receive loop goes after Recv returned r
RecvLoopNext(r) ==
  CASE r = "eof" -> IF caller = "SendPreconfBid" THEN "finalRecv" ELSE "done"
    [] r = "err" -> "recvLoop"
    [] OTHER -> "recvLoop"

\* one iteration of SendBid's receive loop
SendBidRecv ==
  /\ bpc = "recvLoop"
  /\ \E r \in RecvResults :
       /\ lastRecv' = r
       /\ recvCalls' = CountRecv
       /\ streamState' = StreamAfter(r)
       /\ accepted' = IF r = "msg" THEN accepted + 1 ELSE accepted
       /\ bpc' = RecvLoopNext(r)
  /\ UNCHANGED <<caller, spbCall, sendBidCalls, sendBidErr, bidRequests,
                 marshalCalls>>

(***************************************************************************)
(* Bid Transport: SendPreconfBid.                                          *)
(***************************************************************************)
\* no SendPreconfBid call made
NoPreconfCall == [input |-> [type |-> "none", val |-> <<>>],
                  blockNumber |-> 0, amount |-> 0, currentTime |-> 0]

\* the type switch of SendPreconfBid: the input it hands to SendBid, or
\* NoCall when it returns without calling SendBid
NoCall == [type |-> "return", val |-> <<>>]

\* variant: the default case hands the input on to SendBid
PreconfInputForwarding(input) ==
  CASE input.type = "string" -> StringListInput(<<TrimPrefix0x(input.val)>>)
    [] input.type = "*types.Transaction" ->
         IF input.val.nil THEN NoCall ELSE TxListInput(<<input.val>>)
    [] OTHER -> input

PreconfInput(input) ==
  CASE input.type = "string" -> StringListInput(<<TrimPrefix0x(input.val)>>)
    [] input.type = "*types.Transaction" ->
         IF input.val.nil THEN NoCall ELSE TxListInput(<<input.val>>)
    [] OTHER -> NoCall

\* 36 * time.Second in milliseconds
DecayMillis == 36000

\* variant: the duration is added in seconds
DecayEndInSeconds(currentTime) == currentTime + 36

\* decayStart := currentTime
DecayStart(currentTime) == currentTime

\* decayEnd := currentTime + int64(time.Duration(36*time.Second).Milliseconds())
DecayEnd(currentTime) == currentTime + DecayMillis

\* SendPreconfBid from its entry to the first Recv of SendBid, or to its
\* return when no stream was opened.  now: time.Now().UnixMilli()
SendPreconfBidStart(input, blk, q, now, openOK) ==
  /\ caller' = "SendPreconfBid"
  /\ spbCall' = [input |-> input, blockNumber |-> blk, amount |-> q,
                 currentTime |-> now]
  /\ IF PreconfInput(input).type = "return"
       THEN /\ bpc' = "done"
            /\ UNCHANGED <<sendBidCalls, sendBidErr, bidRequests, marshalCalls,
                           streamState, recvCalls, lastRecv, accepted>>
       ELSE SendBidStart(PreconfInput(input), EthToWeiString(q), blk,
                         DecayStart(now), DecayEnd(now), openOK)

\* the single responseClient.Recv() SendPreconfBid makes after SendBid has
\* returned the stream
SendPreconfBidRecv ==
  /\ bpc = "finalRecv"
  /\ \E r \in RecvResults :
       /\ lastRecv' = r
       /\ recvCalls' = CountRecv
       /\ streamState' = StreamAfter(r)
  /\ bpc' = "done"
  /\ UNCHANGED <<caller, spbCall, sendBidCalls, sendBidErr, bidRequests,
                 marshalCalls, accepted>>


(***************************************************************************)
(* Initial values.                                                         *)
(***************************************************************************)
BidInit ==
  /\ caller = "none"
  /\ spbCall = NoPreconfCall
  /\ bpc = "idle"
  /\ sendBidCalls = <<>>
  /\ sendBidErr = "none"
  /\ bidRequests = <<>>
  /\ marshalCalls = 0
  /\ streamState = "none"
  /\ recvCalls = 0
  /\ lastRecv = "none"
  /\ accepted = 0

ConnInit ==
  /\ rpcClient = "none"
  /\ rpcAttempts = 0
  /\ rpcSleeps = <<>>
  /\ wsDialFails = 0
  /\ wsClient = 0
  /\ sub = 0
  /\ activeSubs = <<>>
  /\ rcAttempts = 0
  /\ rcResult = "idle"
  /\ reconnects = 0

\* the account AuthenticateAddress returns: the address is derived from the
\* private key
AuthAccts == {[address |-> a, keyAddress |-> a] : a \in {"0xA1", "0xB2"}}

MainAuthAcct == CHOOSE a \in AuthAccts : a.address = "0xA1"

\* AuthAcct{}: the zero account, no key and no transactor
NoAcct == [address |-> "", keyAddress |-> ""]

\* no build made for the header in work
NoTrace == [latest |-> 0, steps |-> <<>>, client |-> 0,
            call |-> [fn |-> "none", numBlobs |-> 0],
            txType |-> 0, blobs |-> 0, blobHashes |-> 0]

LoopInit ==
  /\ headersTaken = 0
  /\ header = 0
  /\ signedTx = NoTx
  /\ blockNumber = 0
  /\ err = "none"
  /\ randomEthAmount = 0
  /\ relayed = <<>>
  /\ buildTrace = NoTrace

\* no direct call made
NoBuildCall == [kind |-> "none"]

NoSampling == [target |-> 0]

PureInit ==
  /\ buildCall = NoBuildCall
  /\ sampling = NoSampling

(***************************************************************************)
(* The Bid Transport driven directly, as the package's tests drive it:     *)
(* SendPreconfBid and SendBid are called with inputs of every dynamic      *)
(* type, against a bidder service whose stream the environment scripts.    *)
(***************************************************************************)
SeqsUpTo(S, n) == UNION {[1..k -> S] : k \in 0..n}

BlockNumbers == {BaseBlock, BaseBlock + 1}

\* clock readings in milliseconds; the largest is kept within the range of
\* the model checker's integers
MaxClock == 2000000000
ClockReadings == {0, 1700000000, MaxClock}

\* decay windows a caller of SendBid passes
DecayWindows == {<<0, 0>>, <<1000, 37000>>}
EthAmounts == 1..MaxQuarters

InitBid ==
  /\ usePayload = TRUE
  /\ numBlob = 0
  /\ offset = 1
  /\ hasDeadline = FALSE
  /\ pc = "harness"
  /\ term = "none"
  /\ acct = NoAcct
  /\ deadlinePassed = FALSE
  /\ ConnInit
  /\ LoopInit
  /\ BidInit
  /\ PureInit

HarnessFrame ==
  UNCHANGED <<pureVars, cfgVars, acct, pc, term, deadlinePassed, connVars, loopVars>>

\* SendPreconfBid(bidderClient, "0x...", blk, amount)
CallPreconfWithHash ==
  /\ bpc = "idle"
  /\ \E h \in HashStrings, blk \in BlockNumbers, q \in EthAmounts,
        openOK \in BOOLEAN :
       \E now \in ClockReadings :
              SendPreconfBidStart(StringInput(h), blk, q, now, openOK)
  /\ HarnessFrame

\* SendPreconfBid(bidderClient, tx, blk, amount), tx possibly nil
CallPreconfWithTx ==
  /\ bpc = "idle"
  /\ \E t \in Txs \cup {NoTx}, blk \in BlockNumbers, q \in EthAmounts,
        openOK \in BOOLEAN :
       \E now \in ClockReadings :
              SendPreconfBidStart(TxInput(t), blk, q, now, openOK)
  /\ HarnessFrame

\* SendPreconfBid(bidderClient, 12345, blk, amount) and other unsupported
\* dynamic types (a list where a single value is expected)
CallPreconfWithOther ==
  /\ bpc = "idle"
  /\ \E blk \in BlockNumbers, q \in EthAmounts, openOK \in BOOLEAN :
       \/ \E now \in ClockReadings :
              SendPreconfBidStart(IntInput(12345), blk, q, now, openOK)
       \/ \E l \in SeqsUpTo(HashStrings, 1) :
            \E now \in ClockReadings :
              SendPreconfBidStart(StringListInput(l), blk, q, now, openOK)
  /\ HarnessFrame

\* b.SendBid([]string{...}, amount, blk, ...)
CallSendBidWithHashes ==
  /\ bpc = "idle"
  /\ caller' = "SendBid"
  /\ spbCall' = spbCall
  /\ \E l \in SeqsUpTo(HashStrings, MaxListLen), blk \in BlockNumbers,
        q \in EthAmounts, openOK \in BOOLEAN :
       \E w \in DecayWindows :
              SendBidStart(StringListInput(l), EthToWeiString(q), blk, w[1], w[2],
                           openOK)
  /\ HarnessFrame

\* b.SendBid([]*types.Transaction{...}, amount, blk, ...)
CallSendBidWithTxs ==
  /\ bpc = "idle"
  /\ caller' = "SendBid"
  /\ spbCall' = spbCall
  /\ \E l \in SeqsUpTo(Txs, MaxListLen), blk \in BlockNumbers,
        q \in EthAmounts, openOK \in BOOLEAN :
       \E w \in DecayWindows :
              SendBidStart(TxListInput(l), EthToWeiString(q), blk, w[1], w[2],
                           openOK)
  /\ HarnessFrame

\* b.SendBid(12345, ...), b.SendBid("0x...", ...), b.SendBid(tx, ...)
CallSendBidWithOther ==
  /\ bpc = "idle"
  /\ caller' = "SendBid"
  /\ spbCall' = spbCall
  /\ \E blk \in BlockNumbers, q \in EthAmounts, openOK \in BOOLEAN :
       \/ \E w \in DecayWindows :
              SendBidStart(IntInput(12345), EthToWeiString(q), blk, w[1], w[2],
                           openOK)
       \/ \E h \in HashStrings :
            \E w \in DecayWindows :
              SendBidStart(StringInput(h), EthToWeiString(q), blk, w[1], w[2],
                           openOK)
       \/ \E t \in Txs :
            \E w \in DecayWindows :
              SendBidStart(TxInput(t), EthToWeiString(q), blk, w[1], w[2],
                           openOK)
  /\ HarnessFrame

HarnessRecv == pc = "harness" /\ SendBidRecv /\ HarnessFrame

HarnessFinalRecv == pc = "harness" /\ SendPreconfBidRecv /\ HarnessFrame

\* the call has returned; the next test starts from a fresh client
HarnessReset ==
  /\ pc = "harness"
  /\ bpc = "done"
  /\ caller' = "none"
  /\ spbCall' = NoPreconfCall
  /\ bpc' = "idle"
  /\ sendBidCalls' = <<>>
  /\ sendBidErr' = "none"
  /\ bidRequests' = <<>>
  /\ marshalCalls' = 0
  /\ streamState' = "none"
  /\ recvCalls' = 0
  /\ lastRecv' = "none"
  /\ accepted' = 0
  /\ HarnessFrame

NextBid ==
  \/ CallPreconfWithHash
  \/ CallPreconfWithTx
  \/ CallPreconfWithOther
  \/ CallSendBidWithHashes
  \/ CallSendBidWithTxs
  \/ CallSendBidWithOther
  \/ HarnessRecv
  \/ HarnessFinalRecv
  \/ HarnessReset

SpecBid == InitBid /\ [][NextBid]_vars


(***************************************************************************)
(* Connection Manager (internal/mevcommit/client.go) as main drives it.    *)
(***************************************************************************)
Terminal == {"returned", "exited", "panicked"}

\* variant: one more dial than maxRetries
RpcLoopContinuesOneMore(i) == i <= RpcMaxRetries

\* for i := 0; i < maxRetries; i++    (i = dial attempts already made)
RpcLoopContinues(i) == i < RpcMaxRetries

\* variant: one more subscribe attempt than 10
ReconnectLoopContinuesOneMore(i) == i <= ReconnectMaxAttempts

\* for i := 0; i < 10; i++            (i = subscribe attempts already made)
ReconnectLoopContinues(i) == i < ReconnectMaxAttempts

\* math.Pow(2, float64(i)) converted to time.Duration: a power of two is
\* exact in a float64 and is converted without loss
RECURSIVE Pow2(_)
Pow2(i) == IF i = 0 THEN 1 ELSE 2 * Pow2(i - 1)

\* variant: the pause grows by ten seconds per attempt
BackoffLinear(i) == 10 * (i + 1)

\* time.Sleep(10 * time.Duration(math.Pow(2, float64(i))) * time.Second),
\* in seconds; i is the loop index of the failed attempt.  The product, in
\* nanoseconds, stays within an int64 for every i up to 29.
Backoff(i) == 10 * Pow2(i)

\* One iteration of ConnectRPCClientWithRetries, called by main only when
\* usePayload is false.  A successful dial returns the handle; a failed one
\* sleeps and loops; after the last failure, and its sleep, the function
\* logs and returns nil, and main logs and goes on.
ConnectRPCClientWithRetries ==
  /\ pc = "connectRPC"
  /\ rpcAttempts' = rpcAttempts + 1
  /\ \E ok \in BOOLEAN :
       IF ok
         THEN /\ rpcClient' = "handle"
              /\ rpcSleeps' = rpcSleeps
              /\ pc' = "connectWS"
         ELSE /\ rpcClient' = "none"
              /\ rpcSleeps' = Append(rpcSleeps, Backoff(rpcAttempts))
              /\ pc' = IF RpcLoopContinues(rpcAttempts + 1)
                         THEN "connectRPC" ELSE "connectWS"
  /\ UNCHANGED <<pureVars, cfgVars, acct, term, deadlinePassed, wsDialFails, wsClient, sub, activeSubs,
                 rcAttempts, rcResult, reconnects, loopVars, bidVars>>

\* variant: the dial loop is left after a failed dial as well
DialLoopExitsAlways(ok) == TRUE

\* ConnectWSClient: if err == nil { return wsClient, nil } is the only exit
\* of its for loop
DialLoopExits(ok) == ok

\* One iteration of ConnectWSClient's endless loop, called by main at
\* startup: NewGethClient succeeds and the handle is returned, or it fails
\* and the loop sleeps and dials again.  wsDialFails counts the failed dials
\* of the call; it is kept until main's next statement has run.
ConnectWSClient ==
  /\ pc = "connectWS"
  /\ \E ok \in BOOLEAN :
       IF DialLoopExits(ok)
         THEN /\ wsClient' = IF ok THEN 1 ELSE 0
              /\ wsDialFails' = wsDialFails
              /\ pc' = "subscribe"
         ELSE /\ wsDialFails < MaxDialFails
              /\ wsDialFails' = wsDialFails + 1
              /\ UNCHANGED <<wsClient, pc>>
  /\ UNCHANGED <<pureVars, cfgVars, acct, term, deadlinePassed, rpcClient, rpcAttempts, rpcSleeps, sub, activeSubs,
                 rcAttempts, rcResult, reconnects, loopVars, bidVars>>

\* main: sub, err := wsClient.SubscribeNewHead(ctx, headers)
SubscribeNewHead ==
  /\ pc = "subscribe"
  /\ \E ok \in BOOLEAN :
       IF ok
         THEN /\ sub' = wsClient
              /\ activeSubs' = Append(activeSubs, wsClient)
              /\ pc' = "authenticate"
              /\ term' = term
         ELSE /\ sub' = sub
              /\ activeSubs' = activeSubs
              /\ pc' = "returned"
              /\ term' = "subscribeError"
  /\ wsDialFails' = 0
  /\ UNCHANGED <<pureVars, cfgVars, acct, deadlinePassed, rpcClient, rpcAttempts, rpcSleeps, wsClient,
                 rcAttempts, rcResult, reconnects, loopVars, bidVars>>

\* variant: main goes on to the loop whatever the key check and
\* AuthenticateAddress gave
AfterAuthenticateErrorIgnored(outcome, exits) == "loopTop"

\* where main goes after the private-key check and bb.AuthenticateAddress.
\* An empty key makes main return an error; a key HexToECDSA rejects, or a
\* failed chain-ID read, is logged with Crit and returned as an error, which
\* main returns.  Crit writes the record and, with go-ethereum's logger, ends
\* the process (exits); a logger that only writes lets the function return.
AfterAuthenticate(outcome, exits) ==
  CASE outcome = "ok" -> "loopTop"
    [] outcome = "noKey" -> "returned"
    [] outcome \in {"badKey", "chainIDError"} ->
         IF exits THEN "exited" ELSE "returned"

\* main: if privateKeyHex == "" { return error };
\* authAcct, err := bb.AuthenticateAddress(privateKeyHex, wsClient)
AuthenticateAddress ==
  /\ pc = "authenticate"
  /\ \E outcome \in {"ok", "noKey", "badKey", "chainIDError"},
        exits \in BOOLEAN :
       /\ pc' = AfterAuthenticate(outcome, exits)
       /\ acct' = IF outcome = "ok" THEN MainAuthAcct ELSE NoAcct
       /\ term' = IF outcome = "ok" THEN term ELSE "authError"
  /\ UNCHANGED <<pureVars, cfgVars, deadlinePassed, connVars, loopVars, bidVars>>

\* The clock passes endTime (only meaningful with a run duration).
DeadlinePasses ==
  /\ hasDeadline
  /\ ~deadlinePassed
  /\ pc \notin Terminal
  /\ deadlinePassed' = TRUE
  /\ UNCHANGED <<pureVars, cfgVars, acct, pc, term, connVars, loopVars, bidVars>>

\* variant: the run duration is never found reached
RunDurationNeverReached == FALSE

\* if runDurationMinutes > 0 && time.Now().After(endTime)
RunDurationReached == hasDeadline /\ deadlinePassed

\* Top of the loop: the run-duration check, then the select statement is
\* entered, which evaluates sub.Err() (a method call on a nil interface
\* when sub is nil) and blocks.  The logs of requests (relayed,
\* sendBidCalls, bidRequests, marshalCalls) and the stream observations
\* record what was done for one header, rcAttempts and rcResult what the
\* last ReconnectWSClient did: they are cleared when the loop blocks for the
\* next event.
LoopTop ==
  /\ pc = "loopTop"
  /\ IF RunDurationReached
       THEN /\ pc' = "returned"
            /\ term' = "deadline"
            /\ UNCHANGED <<relayed, bidVars, rcAttempts, rcResult>>
       ELSE IF sub = 0
         THEN /\ pc' = "panicked"
              /\ term' = "nilSubscription"
              /\ UNCHANGED <<relayed, bidVars, rcAttempts, rcResult>>
         ELSE /\ pc' = "select"
              /\ term' = term
              /\ rcAttempts' = 0
              /\ rcResult' = "idle"
              /\ relayed' = <<>>
              /\ caller' = "none"
              /\ spbCall' = NoPreconfCall
              /\ bpc' = "idle"
              /\ sendBidCalls' = <<>>
              /\ sendBidErr' = "none"
              /\ bidRequests' = <<>>
              /\ marshalCalls' = 0
              /\ streamState' = "none"
              /\ recvCalls' = 0
              /\ lastRecv' = "none"
              /\ accepted' = 0
  /\ UNCHANGED <<pureVars, cfgVars, acct, deadlinePassed, rpcClient, rpcAttempts, rpcSleeps, wsDialFails,
                 wsClient, sub, activeSubs, reconnects, headersTaken, header, signedTx,
                 blockNumber, err, randomEthAmount, buildTrace>>

\* variant: a subscription that reported an error goes on delivering
EndedSubscriptionKept(subs, s) == subs

\* the subscription on handle s has reported an error on sub.Err(): it has
\* ended and delivers no more headers
EndedSubscription(subs, s) == SelectSeq(subs, LAMBDA h : h # s)

\* case err := <-sub.Err(): main logs and calls ReconnectWSClient.
SubscriptionError ==
  /\ pc = "select"
  /\ reconnects < MaxReconnects
  /\ activeSubs' = EndedSubscription(activeSubs, sub)
  /\ reconnects' = reconnects + 1
  /\ rcAttempts' = 0
  /\ rcResult' = "running"
  /\ wsDialFails' = 0
  /\ pc' = "rcDial"
  /\ UNCHANGED <<pureVars, cfgVars, acct, term, deadlinePassed, rpcClient, rpcAttempts, rpcSleeps,
                 wsClient, sub, loopVars, bidVars>>

\* ReconnectWSClient: one dial of the ConnectWSClient call that opens each
\* attempt (that call never returns an error, it dials until it succeeds).
ReconnectDial ==
  /\ pc = "rcDial"
  /\ \E ok \in BOOLEAN :
       IF DialLoopExits(ok)
         THEN /\ wsDialFails' = 0
              /\ pc' = "rcSubscribe"
         ELSE /\ wsDialFails < MaxDialFails
              /\ wsDialFails' = wsDialFails + 1
              /\ pc' = pc
  /\ UNCHANGED <<pureVars, cfgVars, acct, term, deadlinePassed, rpcClient, rpcAttempts, rpcSleeps,
                 wsClient, sub, activeSubs, rcAttempts, rcResult, reconnects, loopVars,
                 bidVars>>

\* variant: the new handle comes with the subscription main already had
ReconnectedPairStaleSub(k) == [client |-> k + 1, sub |-> k]

\* return wsClient, sub: the handle dialled by the k-th ReconnectWSClient
\* call and the subscription made on it
ReconnectedPair(k) == [client |-> k + 1, sub |-> k + 1]

\* ReconnectWSClient: SubscribeNewHead on the handle just dialled.  Success
\* returns the pair to main, which assigns both and continues.  Failure
\* sleeps and loops; after the last attempt the function logs with Crit
\* (which ends the process when the logger is go-ethereum's) and returns
\* (nil, nil), which main assigns before it continues.
ReconnectSubscribe ==
  /\ pc = "rcSubscribe"
  /\ rcAttempts' = rcAttempts + 1
  /\ \E ok \in BOOLEAN :
       IF ok
         THEN /\ wsClient' = ReconnectedPair(reconnects).client
              /\ sub' = ReconnectedPair(reconnects).sub
              /\ activeSubs' =
                   Append(activeSubs, ReconnectedPair(reconnects).client)
              /\ rcResult' = "pair"
              /\ pc' = "loopTop"
              /\ term' = term
         ELSE IF ReconnectLoopContinues(rcAttempts + 1)
           THEN /\ pc' = "rcDial"
                /\ UNCHANGED <<wsClient, sub, activeSubs, rcResult, term>>
           ELSE /\ rcResult' = "none"
                /\ activeSubs' = activeSubs
                /\ \E exits \in BOOLEAN :
                     IF exits
                       THEN /\ pc' = "exited"
                            /\ term' = "exhaustion"
                            /\ UNCHANGED <<wsClient, sub>>
                       ELSE /\ pc' = "loopTop"
                            /\ term' = term
                            /\ wsClient' = 0
                            /\ sub' = 0
  /\ UNCHANGED <<pureVars, cfgVars, acct, deadlinePassed, rpcClient, rpcAttempts, rpcSleeps, wsDialFails,
                 reconnects, loopVars, bidVars>>

(***************************************************************************)
(* Orchestrator: the body of main's loop for one header.                   *)
(***************************************************************************)
\* case header := <-headers
TakeHeader ==
  /\ pc = "select"
  /\ activeSubs # <<>>
  /\ headersTaken < MaxHeaders
  /\ headersTaken' = headersTaken + 1
  /\ header' = BaseBlock + headersTaken
  /\ pc' = "build"
  /\ UNCHANGED <<pureVars, cfgVars, acct, term, deadlinePassed, connVars, signedTx,
                 blockNumber, err, randomEthAmount, relayed, buildTrace,
                 bidVars>>

\* the signed transaction a build returns: a dynamic-fee transaction (type
\* byte 2) for SelfETHTransfer, a blob transaction (type byte 3) for
\* ExecuteBlobTransaction
BuiltTx(n) ==
  CHOOSE t \in Txs : t.marshalOK /\ t.enc[1] = (IF n = 0 THEN 2 ELSE 3)

\* the ways a build can end: a signed transaction, an error return (a failed
\* chain read or a failed signing), or, for a blob build, a nil dereference
\* of header.ExcessBlobGas / BlobGasUsed when the node's header carries no
\* blob-gas fields
BuildOutcomes(n) ==
  {"ok", "nonceErr", "headerErr", "chainIDErr", "signErr"}
    \cup (IF n = 0 THEN {} ELSE {"nilBlobGas"})

\* randomEthAmount := max(rand.NormFloat64()*stdDev + bidAmount, bidAmount)
ClampedAmount(sample) == IF sample > BidAmount THEN sample ELSE BidAmount

\* what the node answers during a build, and the blobs randBlobs draws
Nonces == {0, 7}
BaseFees == {7, 30}
ChainIDs == {17000}
BlobFees == {1, 9}
BlobValues == 1..MaxBlobValue
RandBlobs(n) == [1..n -> BlobValues]

BuildEnvs(n, latests) ==
  [outcome : BuildOutcomes(n), nonce : Nonces, latest : latests,
   baseFee : BaseFees, chainID : ChainIDs, blobFee : BlobFees,
   blobs : RandBlobs(n)]

\* variant: the build is chosen by the parity of the header's number
MainBuildCallByHeader ==
  IF header % 2 = 0
    THEN [fn |-> "SelfETHTransfer", numBlobs |-> 0]
    ELSE [fn |-> "ExecuteBlobTransaction", numBlobs |-> 1]

\* the build main calls for a header: if numBlob == 0 { SelfETHTransfer }
\* else { ExecuteBlobTransaction(..., int(numBlob), ...) }
MainBuildCall ==
  IF numBlob = 0
    THEN [fn |-> "SelfETHTransfer", numBlobs |-> 0]
    ELSE [fn |-> "ExecuteBlobTransaction", numBlobs |-> numBlob]

\* main: if numBlob == 0 { SelfETHTransfer(wsClient, authAcct,
\* big.NewInt(1e9), offset, big.NewInt(int64(priorityFee))) } else {
\* ExecuteBlobTransaction(wsClient, authAcct, int(numBlob), offset, ...) }
MainBuild(env) ==
  IF MainBuildCall.fn = "SelfETHTransfer"
    THEN SelfETHTransfer(acct, 1000000000, offset, PriorityFeeFlag,
                         InitDefaultPriorityFee(UnsetEnv), env)
    ELSE ExecuteBlobTransaction(acct, offset, PriorityFeeFlag,
                                InitDefaultPriorityFee(UnsetEnv), env)

\* the calls a build made, the number of the latest header it was given
\* (0 when it did not get one), the handle main passed to it, the call main
\* made, and the type of the transaction returned with the number of blobs
\* and of blob hashes it carries
Trace(env, r) ==
  [latest |-> IF env.outcome \in {"nonceErr", "headerErr"}
                THEN 0 ELSE env.latest,
   steps |-> r.steps,
   client |-> wsClient,
   call |-> MainBuildCall,
   txType |-> r.tx.type,
   blobs |-> IF r.tx.type = 3 THEN Len(r.tx.sidecar.blobs) ELSE 0,
   blobHashes |-> IF r.tx.type = 3 THEN Len(r.tx.blobHashes) ELSE 0]

\* ee.SelfETHTransfer / ee.ExecuteBlobTransaction, then main's logging and
\* the sampling of the bid amount.  The signed transaction main holds is
\* BuiltTx(numBlob); a build that panics ends the process.
Build ==
  /\ pc = "build"
  /\ \E env \in BuildEnvs(MainBuildCall.numBlobs, {header, header + 1}),
        sample \in 0..MaxSample :
       LET r == MainBuild(env) IN
         /\ buildTrace' = Trace(env, r)
         /\ IF r.panics
              THEN /\ pc' = "panicked"
                   /\ term' = "nilBlobGas"
                   /\ UNCHANGED <<signedTx, blockNumber, err, randomEthAmount>>
              ELSE /\ signedTx' = IF r.err = "none" THEN BuiltTx(numBlob)
                                                    ELSE NoTx
                   /\ blockNumber' = r.blockNumber
                   /\ err' = r.err
                   /\ randomEthAmount' = ClampedAmount(sample)
                   /\ pc' = "built"
                   /\ term' = term
  /\ UNCHANGED <<pureVars, cfgVars, acct, deadlinePassed, connVars, headersTaken,
                 header, relayed, bidVars>>

\* variant: main does not wait for the call to finish
AfterPreconfStartDetached(b) == "loopTop"

\* where main is after SendPreconfBid was entered: inside it while a stream
\* is being read, else back at the top of the loop
AfterPreconfStart(b) == IF b = "recvLoop" THEN "bidding" ELSE "loopTop"

\* variant: the values of the header just processed stay in place for the
\* next one
EndOfIterationKeepsLocals ==
  /\ pc' = "loopTop"
  /\ UNCHANGED <<header, signedTx, blockNumber, randomEthAmount, buildTrace,
                 headersTaken, err, relayed>>

\* The loop body ends (main's final err check continues the loop either
\* way): header, signedTx, blockNumber and randomEthAmount are locals of the
\* case and go out of scope; err is main's and keeps its value.
EndOfIteration ==
  /\ pc' = "loopTop"
  /\ header' = 0
  /\ signedTx' = NoTx
  /\ blockNumber' = 0
  /\ randomEthAmount' = 0
  /\ buildTrace' = NoTrace
  /\ UNCHANGED <<headersTaken, err, relayed>>

\* main after the synchronous part of SendPreconfBid
ContinueAfterPreconfStart ==
  IF AfterPreconfStart(bpc') = "loopTop"
    THEN EndOfIteration
    ELSE pc' = "bidding" /\ UNCHANGED loopVars

\* the clock reading when the bid for header h is made: headers are twelve
\* seconds apart
ClockAt(h) == (h - BaseBlock) * 12000

\* if usePayload { bb.SendPreconfBid(bidderClient, signedTx, ...) }
BidPayload ==
  /\ pc = "built"
  /\ usePayload
  /\ \E openOK \in BOOLEAN :
       SendPreconfBidStart(TxInput(signedTx), blockNumber, randomEthAmount,
                           ClockAt(header), openOK)
  /\ ContinueAfterPreconfStart
  /\ UNCHANGED <<pureVars, cfgVars, acct, term, deadlinePassed, connVars>>

\* the eth_sendBundle request SendBundle posts: params holds one map with
\* "txs": []string{hexutil.Encode(binary)} and "blockNumber": blockNum
BundleRequest(tx, blk) ==
  [method |-> "eth_sendBundle",
   txs |-> <<<<"0", "x">> \o HexEncodeToString(tx.enc)>>,
   blockNumber |-> EncodeUint64(blk)]

\* what the relay's side of the HTTP exchange can be: the exchange fails
\* ("doErr"), the body cannot be read ("readErr"), the body is not JSON
\* ("badJSON"), or a JSON-RPC response arrives, with or without an "error"
\* object (hasError, code) and with or without a "result" (hasResult,
\* result)
RelayReplies ==
  {[kind |-> k, hasError |-> FALSE, code |-> 0, hasResult |-> FALSE,
    result |-> ""] : k \in {"doErr", "readErr", "badJSON"}}
  \cup
  [kind : {"response"}, hasError : {TRUE}, code : {0, -32000},
   hasResult : {FALSE}, result : {""}]
  \cup
  {[kind |-> "response", hasError |-> FALSE, code |-> 0, hasResult |-> TRUE,
    result |-> "\"0xab\""],
   [kind |-> "response", hasError |-> FALSE, code |-> 0, hasResult |-> FALSE,
    result |-> ""]}

\* variant: the error object is recognised by a code other than 0
RpcErrorByCode(reply) == reply.hasError /\ reply.code # 0

\* if rpcResp.Error != nil: the response carried an "error" object
RpcError(reply) == reply.hasError

\* json.Marshal(rpcResp.Result): the raw result as received, "null" when the
\* response had none
ResultString(reply) == IF reply.hasResult THEN reply.result ELSE "null"

\* SendBundle(RPCURL, signedTx, blkNum): the requests it posts, the string
\* and the error it returns.  MarshalBinary on a nil transaction is a nil
\* dereference (panics); a marshal error returns before anything is sent.
SendBundleCall(tx, blk, reply) ==
  IF tx.nil
    THEN [panics |-> TRUE, requests |-> <<>>, result |-> "", err |-> "none"]
  ELSE IF ~tx.marshalOK
    THEN [panics |-> FALSE, requests |-> <<>>, result |-> "",
          err |-> "marshal"]
  ELSE LET req == <<BundleRequest(tx, blk)>> IN
    CASE reply.kind = "doErr" ->
           [panics |-> FALSE, requests |-> req, result |-> "", err |-> "http"]
      [] reply.kind = "readErr" ->
           [panics |-> FALSE, requests |-> req, result |-> "", err |-> "read"]
      [] reply.kind = "badJSON" ->
           [panics |-> FALSE, requests |-> req, result |-> "",
            err |-> "unmarshal"]
      [] OTHER ->
           IF RpcError(reply)
             THEN [panics |-> FALSE, requests |-> req, result |-> "",
                   err |-> "rpcError"]
             ELSE [panics |-> FALSE, requests |-> req,
                   result |-> ResultString(reply), err |-> "none"]

\* variant: the bundle is not relayed before the bid
SendBundleSkipped ==
  /\ pc = "built"
  /\ ~usePayload
  /\ ~signedTx.nil
  /\ pc' = "relayed"
  /\ UNCHANGED <<pureVars, cfgVars, acct, term, deadlinePassed, connVars, loopVars, bidVars>>

\* variant: a failed relay ends the work on the header
AfterSendBundleErrorSkipsBid(e) == IF e = "none" THEN "relayed" ELSE "loopTop"

\* where main goes after SendBundle returned e: if err != nil { slog.Error }
\* only logs, the hash bid follows in either case
AfterSendBundle(e) == "relayed"

\* else { _, err = ee.SendBundle(rpcEndpoint, signedTx, blockNumber) ... }
\* SendBundle starts with signedTx.MarshalBinary(), a nil dereference when
\* signedTx is nil; otherwise it posts the bundle and returns the relay's
\* answer, an error being only logged by main.
SendBundle ==
  /\ pc = "built"
  /\ ~usePayload
  /\ \E reply \in RelayReplies :
       LET r == SendBundleCall(signedTx, blockNumber, reply) IN
         IF r.panics
           THEN /\ pc' = "panicked"
                /\ term' = "nilTransaction"
                /\ UNCHANGED <<err, relayed>>
           ELSE /\ relayed' = relayed \o r.requests
                /\ err' = IF r.err = "none" THEN "none" ELSE "relayErr"
                /\ pc' = AfterSendBundle(err')
                /\ term' = term
  /\ UNCHANGED <<pureVars, cfgVars, acct, deadlinePassed, connVars, headersTaken, header,
                 signedTx, blockNumber, randomEthAmount, buildTrace,
                 bidVars>>

\* bb.SendPreconfBid(bidderClient, signedTx.Hash().String(), ...)
BidHash ==
  /\ pc = "relayed"
  /\ \E openOK \in BOOLEAN :
       SendPreconfBidStart(StringInput(TxHashString(signedTx)), blockNumber,
                           randomEthAmount, ClockAt(header), openOK)
  /\ ContinueAfterPreconfStart
  /\ UNCHANGED <<pureVars, cfgVars, acct, term, deadlinePassed, connVars>>

\* main is inside SendBid's receive loop
BidRecv ==
  /\ pc = "bidding"
  /\ SendBidRecv
  /\ UNCHANGED <<pureVars, cfgVars, acct, pc, term, deadlinePassed, connVars, loopVars>>

\* SendPreconfBid's own Recv, its return, and main's final err check, which
\* continues the loop either way
BidFinalRecv ==
  /\ pc = "bidding"
  /\ SendPreconfBidRecv
  /\ EndOfIteration
  /\ UNCHANGED <<pureVars, cfgVars, acct, term, deadlinePassed, connVars>>

(***************************************************************************)
(* The program: main from the connection phase on.                         *)
(***************************************************************************)
Init ==
  /\ usePayload \in BOOLEAN
  /\ numBlob \in 0..MaxNumBlob
  /\ offset \in 1..MaxOffset
  /\ hasDeadline \in BOOLEAN
  /\ pc = IF usePayload THEN "connectWS" ELSE "connectRPC"
  /\ term = "none"
  /\ acct = NoAcct
  /\ deadlinePassed = FALSE
  /\ ConnInit
  /\ LoopInit
  /\ BidInit
  /\ PureInit

Next ==
  \/ ConnectRPCClientWithRetries
  \/ ConnectWSClient
  \/ SubscribeNewHead
  \/ AuthenticateAddress
  \/ DeadlinePasses
  \/ LoopTop
  \/ SubscriptionError
  \/ ReconnectDial
  \/ ReconnectSubscribe
  \/ TakeHeader
  \/ Build
  \/ BidPayload
  \/ SendBundle
  \/ BidHash
  \/ BidRecv
  \/ BidFinalRecv

Spec == Init /\ [][Next]_vars

\* the steps main takes by itself once it can: the statements of the one
\* goroutine main runs in.  The delivery of a header and the error of the
\* subscription are events of the node and are not among them.
MainSteps ==
  \/ ConnectRPCClientWithRetries
  \/ ConnectWSClient
  \/ SubscribeNewHead
  \/ AuthenticateAddress
  \/ LoopTop
  \/ ReconnectDial
  \/ ReconnectSubscribe
  \/ Build
  \/ BidPayload
  \/ SendBundle
  \/ BidHash
  \/ BidRecv
  \/ BidFinalRecv

\* main's goroutine keeps running and the clock keeps going; the node owes
\* neither a header nor a subscription error
SpecFair ==
  /\ Init
  /\ [][Next]_vars
  /\ WF_vars(MainSteps)
  /\ WF_vars(DeadlinePasses)


(***************************************************************************)
(* The Transaction Builder called directly, with every argument and every  *)
(* answer of the node drawn from small sets.                               *)
(***************************************************************************)
MaxPriorityFee == 1
MaxEnvFee == 2
MaxBlobCount == 2

\* priorityFeeGwei: nil or a number
PriorityFees == {NilFee} \cup (0..MaxPriorityFee)

\* PRIORITY_FEE_GWEI in the environment: unset, or its value
EnvFees == {UnsetEnv} \cup (1..MaxEnvFee)

TransferValues == {0, 1000000000}

\* what the node answers to a blob build of k blobs
BlobBuildEnvs(k) ==
  {[e EXCEPT !.blobs = b] : e \in BuildEnvs(1, {BaseBlock}), b \in RandBlobs(k)}

InitBuild ==
  /\ usePayload = TRUE
  /\ numBlob = 0
  /\ offset = 1
  /\ hasDeadline = FALSE
  /\ pc = "direct"
  /\ term = "none"
  /\ acct = NoAcct
  /\ deadlinePassed = FALSE
  /\ ConnInit
  /\ LoopInit
  /\ BidInit
  /\ PureInit

BuildFrame ==
  UNCHANGED <<cfgVars, acct, pc, term, deadlinePassed, connVars, loopVars, bidVars>>

\* SelfETHTransfer(client, authAcct, value, offset, priorityFeeGwei)
CallSelfETHTransfer ==
  /\ pc = "direct"
  /\ buildCall = NoBuildCall
  /\ sampling = NoSampling
  /\ \E authAcct \in AuthAccts, value \in TransferValues,
        off \in 0..MaxOffset, fee \in PriorityFees, envFee \in EnvFees,
        env \in BuildEnvs(0, {BaseBlock}) :
       buildCall' =
         [kind |-> "SelfETHTransfer", authAcct |-> authAcct,
          numBlobs |-> 0, offset |-> off, priorityFeeGwei |-> fee,
          envFee |-> envFee, env |-> env,
          res |-> SelfETHTransfer(authAcct, value, off, fee,
                                  InitDefaultPriorityFee(envFee), env)]
  /\ sampling' = sampling
  /\ BuildFrame

\* ExecuteBlobTransaction(client, authAcct, numBlobs, offset,
\* priorityFeeGwei)
CallExecuteBlobTransaction ==
  /\ pc = "direct"
  /\ buildCall = NoBuildCall
  /\ sampling = NoSampling
  /\ \E authAcct \in AuthAccts, k \in 0..MaxBlobCount,
        off \in 0..MaxOffset, fee \in PriorityFees, envFee \in EnvFees :
       \E env \in BlobBuildEnvs(k) :
         buildCall' =
           [kind |-> "ExecuteBlobTransaction", authAcct |-> authAcct,
            numBlobs |-> k, offset |-> off, priorityFeeGwei |-> fee,
            envFee |-> envFee, env |-> env,
            res |-> ExecuteBlobTransaction(authAcct, off, fee,
                                           InitDefaultPriorityFee(envFee),
                                           env)]
  /\ sampling' = sampling
  /\ BuildFrame

\* float64 values of the configured target: 0.001 (the default), 0.1, 0.25,
\* 0.07 and 1e-19 (a tenth of one wei)
TargetEths ==
  {Float64(FALSE, <<1, 0, 6, 2, 4, 13, 13, 2, 15, 1, 10, 9, 15, 12>>, -10),
   Float64(FALSE, <<1, 13, 8, 3, 12, 9, 4, 15, 11, 6, 13, 2, 10, 12>>, -64),
   Float64(FALSE, <<1, 9, 9, 9, 9, 9, 9, 9, 9, 9, 9, 9, 9, 10>>, -4),
   Float64(FALSE, <<1, 0, 0, 0, 0, 0, 0, 0, 0, 0, 0, 0, 0, 0>>, -2),
   Float64(FALSE, <<1, 1, 14, 11, 8, 5, 1, 14, 11, 8, 5, 1, 14, 12>>, -4)}

\* float64 values of rand.NormFloat64()*stdDev + bidAmount: the targets
\* themselves (a standard deviation of 0 gives the target), -0.1 and 1.1
SampleValues ==
  TargetEths \cup
    {Float64(TRUE, <<1, 9, 9, 9, 9, 9, 9, 9, 9, 9, 9, 9, 9, 10>>, -4),
     Float64(FALSE, <<1, 1, 9, 9, 9, 9, 9, 9, 9, 9, 9, 9, 9, 10>>, 0)}

\* main's sampling of the bid amount followed by SendPreconfBid's
\* conversion of it to wei
CallSampleBidAmount ==
  /\ pc = "direct"
  /\ buildCall = NoBuildCall
  /\ sampling = NoSampling
  /\ \E bidAmount \in TargetEths, sample \in SampleValues :
       sampling' = [target |-> bidAmount, sample |-> sample,
                    randomEthAmount |-> MathMax(sample, bidAmount),
                    randomWeiAmount |->
                      RandomWeiAmount(MathMax(sample, bidAmount))]
  /\ buildCall' = buildCall
  /\ BuildFrame

\* the call has returned; the next one starts afresh
\* a scaled-down scalar field: the 32 random bytes are a number from 0 to
\* MaxDraw, the field's modulus is FieldModulus (below MaxDraw, as the BLS
\* modulus is below 2^256)
MaxDraw == 15
FieldModulus == 13

\* r.SetBytes(bytes): the bytes as a big-endian number, reduced modulo the
\* field's modulus
SetBytes(bytes) == bytes % FieldModulus

\* randFieldElement(): rand.Read fills 32 bytes (the process exits when it
\* fails); one draw is made, SetBytes turns it into an element and
\* SerializeScalar writes the element out as 32 bytes
CallRandFieldElement ==
  /\ pc = "direct"
  /\ buildCall = NoBuildCall
  /\ sampling = NoSampling
  /\ \E bytes \in 0..MaxDraw, readOK \in BOOLEAN :
       buildCall' =
         IF readOK
           THEN [kind |-> "randFieldElement", exits |-> FALSE,
                 draws |-> <<bytes>>, element |-> SetBytes(bytes)]
           ELSE [kind |-> "randFieldElement", exits |-> TRUE,
                 draws |-> <<>>, element |-> 0]
  /\ sampling' = sampling
  /\ BuildFrame

\* the number of leading characters MaskEndpoint keeps
MaskKeep == 10

Stars == <<"*", "*", "*", "*", "*">>

\* variant: an endpoint of exactly ten characters is shown as well
MaskEndpointFromTen(endpoint) ==
  IF Len(endpoint) >= MaskKeep
    THEN SubSeq(endpoint, 1, MaskKeep) \o Stars
    ELSE Stars

\* MaskEndpoint(endpoint): if len(endpoint) > 10 { return endpoint[:10] +
\* "*****" }; return "*****".  Endpoints are ASCII: one byte per character.
MaskEndpoint(endpoint) ==
  IF Len(endpoint) > MaskKeep
    THEN SubSeq(endpoint, 1, MaskKeep) \o Stars
    ELSE Stars

\* endpoints handed to MaskEndpoint: the first 0, 9 or 10 characters of two
\* URLs that differ in their tenth character, followed by up to MaxTail more
MaxTail == 2

EndpointHeads ==
  {<<"w", "s", "s", ":", "/", "/", "h", "o", "s", "t">>,
   <<"w", "s", "s", ":", "/", "/", "h", "o", "s", "u">>}

Endpoints ==
  {SubSeq(h, 1, n) \o t :
     h \in EndpointHeads, n \in {0, 9, 10}, t \in SeqsUpTo({"a", "b"}, MaxTail)}

\* bb.MaskEndpoint(rpcEndpoint), bb.MaskEndpoint(wsEndpoint): two endpoints
\* are masked
CallMaskEndpoint ==
  /\ pc = "direct"
  /\ buildCall = NoBuildCall
  /\ sampling = NoSampling
  /\ \E e \in Endpoints, o \in Endpoints :
       buildCall' = [kind |-> "MaskEndpoint", endpoint |-> e, other |-> o,
                     masked |-> MaskEndpoint(e),
                     maskedOther |-> MaskEndpoint(o)]
  /\ sampling' = sampling
  /\ BuildFrame

\* target blocks of the direct SendBundle calls
BundleBlocks == {0, 26, BaseBlock + 2}

\* SendBundle(rpcEndpoint, signedTx, blkNum)
CallSendBundle ==
  /\ pc = "direct"
  /\ buildCall = NoBuildCall
  /\ sampling = NoSampling
  /\ \E tx \in Txs \cup {NoTx}, blk \in BundleBlocks, reply \in RelayReplies :
       buildCall' = [kind |-> "SendBundle", tx |-> tx, blk |-> blk,
                     reply |-> reply,
                     res |-> SendBundleCall(tx, blk, reply)]
  /\ sampling' = sampling
  /\ BuildFrame

DirectCallDone ==
  /\ pc = "direct"
  /\ buildCall # NoBuildCall \/ sampling # NoSampling
  /\ buildCall' = NoBuildCall
  /\ sampling' = NoSampling
  /\ BuildFrame

NextBuild ==
  \/ CallSelfETHTransfer
  \/ CallExecuteBlobTransaction
  \/ CallSampleBidAmount
  \/ CallSendBundle
  \/ CallMaskEndpoint
  \/ CallRandFieldElement
  \/ DirectCallDone

SpecBuild == InitBuild /\ [][NextBuild]_vars


(***************************************************************************)
(* Properties of the orchestrator loop.                                    *)
(***************************************************************************)
\* C1: when the transaction build fails, the step main takes next returns
\* to the top of the loop to await the next header, having relayed no
\* bundle and made no bid call, with and without --use-payload.
C1_BuildFailureAwaitsNextHeader ==
  [][(pc = "built" /\ signedTx.nil /\ pc' # pc) =>
       /\ pc' = "loopTop"
       /\ relayed' = relayed
       /\ sendBidCalls' = sendBidCalls
       /\ bidRequests' = bidRequests]_vars

\* C2: once the build has returned, with a transaction or with an error,
\* nothing main does for that header (handling the build result, relaying,
\* bidding) ends the process.
C2_NoBuildOrBidErrorEndsProcess ==
  [][(pc \in {"built", "relayed", "bidding"}) =>
       pc' \notin {"panicked", "exited"}]_vars

\* C3: once ReconnectWSClient has given up and handed main "none", the next
\* step of main is a controlled return from the loop.
C3_ExhaustionLeavesLoop ==
  [][(rcResult = "none" /\ pc = "loopTop" /\ pc' # pc) =>
       pc' = "returned"]_vars

\* C4: ReconnectWSClient makes at most 10 subscribe attempts.  While it
\* runs, every attempt so far has failed and fewer than 10 were made; a
\* pair is the one obtained on the attempt that succeeded, the 10th at the
\* latest; it gives up only after 10 failed attempts and then makes no
\* further attempt and delivers no pair (main holds nil for both, unless
\* the Crit log has ended the process).
C4_ResubscribeAtMostTenAttempts ==
  /\ rcAttempts <= 10
  /\ pc \in {"rcDial", "rcSubscribe"} => (rcResult = "running" /\ rcAttempts < 10)
  /\ rcResult = "pair" =>
       /\ rcAttempts >= 1
       /\ pc \notin {"rcDial", "rcSubscribe"}
       /\ wsClient = reconnects + 1
       /\ sub = wsClient
  /\ rcResult = "none" =>
       /\ rcAttempts = 10
       /\ pc \notin {"rcDial", "rcSubscribe"}
       /\ pc = "exited" \/ (wsClient = 0 /\ sub = 0)

\* nine failed attempts, then the tenth succeeds
C4_Witness ==
  /\ rcResult = "pair"
  /\ rcAttempts = 10
  /\ sub = 2

\* C10: ConnectRPCClientWithRetries makes at most maxRetries (5) dials.  It
\* stops at the first dial that succeeds and keeps that handle; it yields
\* "none" only after all 5 dials failed; and main goes on from it to the
\* WebSocket connection in either case, never to an error return.
C10_RpcRetriesBoundedAndNonFatal ==
  /\ [](/\ rpcAttempts <= 5
        /\ pc = "connectRPC" => (rpcClient = "none" /\ rpcAttempts < 5)
        /\ (pc # "connectRPC" /\ ~usePayload) =>
             /\ rpcAttempts >= 1
             /\ rpcClient = "none" => rpcAttempts = 5
        /\ term # "rpcError")
  /\ [][pc = "connectRPC" =>
          /\ pc' \in {"connectRPC", "connectWS"}
          /\ (rpcClient' = "handle" => pc' = "connectWS")]_vars

\* all five dials failed and main is waiting for headers all the same
C10_Witness ==
  /\ ~usePayload
  /\ rpcClient = "none"
  /\ rpcAttempts = 5
  /\ pc = "select"

\* C33: in ConnectRPCClientWithRetries the pause after the failed attempt
\* with index i (from 0) is 10 * 2^i seconds: 10, 20, 40, 80 and 160 s for
\* the five attempts main configures.
C33_BackoffDoubles ==
  /\ \A k \in 1..Len(rpcSleeps) :
       /\ rpcSleeps[k] = 10 * (2 ^ (k - 1))
       /\ k > 1 => rpcSleeps[k] = 2 * rpcSleeps[k - 1]
  /\ Len(rpcSleeps) = 5 => rpcSleeps = <<10, 20, 40, 80, 160>>

\* all five dials have failed
C33_Witness ==
  /\ rpcAttempts = 5
  /\ rpcClient = "none"
  /\ rpcSleeps = <<10, 20, 40, 80, 160>>

\* C34: when every dial fails, ConnectRPCClientWithRetries returns right
\* after the last failed attempt: it pauses only between two attempts, so
\* the failures of one call cause one pause fewer than there were attempts.
C34_NoPauseAfterLastAttempt ==
  (pc # "connectRPC" /\ rpcClient = "none" /\ rpcAttempts > 0) =>
    Len(rpcSleeps) = rpcAttempts - 1

\* C11: ConnectWSClient never returns a failure.  From inside it (at
\* startup and inside ReconnectWSClient) the program only stays inside it,
\* after a failed dial, or goes on to subscribe: no step leaves it towards
\* an error return, and main is handed a handle (never nil) when the
\* startup call returns, however many dials failed before.
C11_ConnectWSReturnsOnlyOnSuccess ==
  [][/\ pc = "connectWS" =>
          /\ pc' \in {"connectWS", "subscribe"}
          /\ term' = "none"
          /\ pc' = "subscribe" => (wsClient' # 0 /\ wsDialFails' = wsDialFails)
          /\ pc' = "connectWS" => (wsClient' = 0 /\ wsDialFails' >= wsDialFails)
     /\ pc = "rcDial" =>
          /\ pc' \in {"rcDial", "rcSubscribe"}
          /\ term' = term]_vars

\* the startup call returns a handle after as many failed dials as the
\* bound allows
C11_Witness ==
  /\ pc = "subscribe"
  /\ wsClient = 1
  /\ wsDialFails = MaxDialFails

\* C12: headers are processed one at a time.  For one header at most one
\* bundle is relayed, one SendBid call made and one bid request sent; while
\* main is at the top of the loop or blocked in the select, no header is in
\* work and no response stream is still open; a header is taken only from
\* the select, with no bid in progress; and every bid request is sent while
\* the header in work is the one taken last, so bids follow the order in
\* which headers were taken.
C12_HeadersOneAtATime ==
  /\ [](/\ Len(relayed) <= 1
        /\ Len(sendBidCalls) <= 1
        /\ Len(bidRequests) <= 1
        /\ pc \in {"loopTop", "select"} =>
             /\ header = 0
             /\ bpc \in {"idle", "done"}
             /\ streamState # "open"
        /\ pc \in {"build", "built", "relayed", "bidding"} =>
             header = BaseBlock + headersTaken - 1)
  /\ [][headersTaken' # headersTaken =>
          /\ pc = "select"
          /\ bpc = "idle"
          /\ bidRequests = <<>>
          /\ headersTaken' = headersTaken + 1
          /\ header' = BaseBlock + headersTaken]_vars
  /\ [][(bidRequests' # bidRequests /\ bidRequests' # <<>>) =>
          /\ bidRequests = <<>>
          /\ pc \in {"built", "relayed"}
          /\ header = BaseBlock + headersTaken - 1
          /\ headersTaken' = headersTaken]_vars

\* the bid for the second header has been sent and its stream read to the
\* end; main is back at the top of the loop
C12_Witness ==
  /\ pc = "loopTop"
  /\ headersTaken = 2
  /\ Len(bidRequests) = 1
  /\ bpc = "done"
  /\ streamState = "eof"

\* C13: after a successful build, with --use-payload nothing is relayed and
\* the bid is made with the signed transaction itself, so its request
\* carries the raw transaction and no hash; without it the transaction is
\* relayed once with eth_sendBundle for the target block before the bid is
\* made, the bid is made with the transaction's hash string, so its request
\* carries one hash and no raw transaction, and no relay call follows a bid
\* made for the same header.
C13_PayloadOrRelayThenHash ==
  /\ [](/\ usePayload => relayed = <<>>
        /\ (usePayload /\ sendBidCalls # <<>>) =>
             /\ spbCall.input = TxInput(BuiltTx(numBlob))
             /\ pc = "bidding" => spbCall.input.val = signedTx
             /\ sendBidCalls[1].input = TxListInput(<<BuiltTx(numBlob)>>)
             /\ \A i \in 1..Len(bidRequests) :
                  /\ bidRequests[i].txHashes = <<>>
                  /\ Len(bidRequests[i].rawTransactions) = 1
        /\ (~usePayload /\ caller = "SendPreconfBid") =>
             /\ Len(relayed) = 1
             /\ relayed[1].method = "eth_sendBundle"
             /\ Len(relayed[1].txs) = 1
             /\ relayed[1].blockNumber = EncodeUint64(spbCall.blockNumber)
             /\ spbCall.input.type = "string"
             /\ SubSeq(spbCall.input.val, 1, 2) = <<"0", "x">>
             /\ Len(sendBidCalls) = 1
             /\ sendBidCalls[1].input.type = "[]string"
             /\ EncodeUint64(sendBidCalls[1].blockNumber) = relayed[1].blockNumber
             /\ \A i \in 1..Len(bidRequests) :
                  /\ bidRequests[i].rawTransactions = <<>>
                  /\ bidRequests[i].txHashes =
                       <<SubSeq(spbCall.input.val, 3, Len(spbCall.input.val))>>)
  /\ [][(relayed' # relayed /\ relayed' # <<>>) =>
          /\ caller = "none" /\ caller' = "none"
          /\ sendBidCalls = <<>> /\ sendBidCalls' = <<>>]_vars

\* hash mode: the bundle was relayed for block 102 and the bid for the same
\* block, carrying the hash alone, has been sent
C13_Witness ==
  /\ ~usePayload
  /\ Len(relayed) = 1
  /\ relayed[1].blockNumber = EncodeUint64(BaseBlock + 2)
  /\ Len(bidRequests) = 1
  /\ bidRequests[1].blockNumber = BaseBlock + 2
  /\ Len(bidRequests[1].txHashes) = 1
  /\ bidRequests[1].rawTransactions = <<>>

\* C14: the target block a successful build returns is the number of the
\* latest header it read plus the configured offset (100 and 1 give 101),
\* for either kind of build, and every bid made for that build carries
\* this value as its block number.
C14_TargetBlockIsLatestPlusOffset ==
  /\ []((pc \in {"built", "relayed", "bidding"} /\ ~signedTx.nil) =>
          /\ buildTrace.latest \in {header, header + 1}
          /\ blockNumber = buildTrace.latest + offset
          /\ (buildTrace.latest = 100 /\ offset = 1) => blockNumber = 101
          /\ \A i \in 1..Len(relayed) :
               relayed[i].blockNumber = EncodeUint64(buildTrace.latest + offset)
          /\ \A i \in 1..Len(sendBidCalls) :
               sendBidCalls[i].blockNumber = buildTrace.latest + offset
          /\ \A i \in 1..Len(bidRequests) :
               bidRequests[i].blockNumber = buildTrace.latest + offset)
  /\ [][(bidRequests' # bidRequests /\ bidRequests' # <<>>) =>
          /\ ~signedTx.nil
          /\ \A i \in 1..Len(bidRequests') :
               bidRequests'[i].blockNumber = buildTrace.latest + offset]_vars

\* a blob build read header 100 with offset 1 and its bid for block 101 is
\* being submitted
C14_Witness ==
  /\ pc = "bidding"
  /\ numBlob > 0
  /\ buildTrace.latest = 100
  /\ offset = 1
  /\ blockNumber = 101
  /\ Len(bidRequests) = 1
  /\ bidRequests[1].blockNumber = 101

\* main is working on a header it took from the channel
Processing == pc \in {"build", "built", "relayed", "bidding"}

\* C22: the run-duration deadline is tested only at the top of the loop.
\* The passing of the deadline changes nothing by itself; a header in work
\* is carried on (main does not return while it is in work); main returns
\* for the deadline only from the top of the loop, and the check at the top
\* that finds the deadline passed returns at once, with no build, relay or
\* bid made by that step or after it.
C22_DeadlineCheckedAtLoopTopOnly ==
  [][/\ (deadlinePassed' # deadlinePassed) =>
          UNCHANGED <<cfgVars, acct, pc, term, connVars, loopVars, bidVars>>
     /\ Processing => pc' \notin {"returned", "exited", "select"}
     /\ (term' = "deadline" /\ term # "deadline") =>
          /\ pc = "loopTop"
          /\ hasDeadline /\ deadlinePassed
          /\ pc' = "returned"
          /\ UNCHANGED <<loopVars, bidVars, connVars>>
     /\ (pc = "loopTop" /\ hasDeadline /\ deadlinePassed /\ pc' # pc) =>
          /\ pc' = "returned"
          /\ term' = "deadline"
     /\ term = "deadline" => UNCHANGED vars]_vars

\* the deadline has passed while a bid's stream is being read, and the
\* reading goes on
C22_Witness ==
  /\ hasDeadline
  /\ deadlinePassed
  /\ pc = "bidding"
  /\ Len(bidRequests) = 1
  /\ lastRecv = "msg"

\* C23: in the loop main's handle and the subscription it watches are
\* always a pair made together; ReconnectWSClient's result replaces both in
\* one step; after a successful resubscribe both are the new pair, and a
\* build made afterwards uses the new handle; from the subscription error
\* to the return to the top of the loop no transaction is built and no bid
\* is sent.
C23_ReconnectReplacesPairWholesale ==
  /\ [](/\ (pc \in {"loopTop", "select", "build", "built", "relayed",
                     "bidding"}) => sub = wsClient
        /\ rcResult = "pair" =>
             /\ reconnects >= 1
             /\ wsClient = reconnects + 1
             /\ sub = reconnects + 1
        /\ pc \in {"built", "relayed", "bidding"} =>
             /\ buildTrace.client = wsClient
             /\ buildTrace.client = sub
             /\ buildTrace.client = reconnects + 1)
  /\ [][/\ ((pc = "select" /\ pc' = "rcDial")
              \/ pc \in {"rcDial", "rcSubscribe"}) =>
             /\ UNCHANGED <<loopVars, bidVars>>
             /\ pc' \in {"rcDial", "rcSubscribe", "loopTop", "exited"}
        /\ (pc \in {"rcDial", "rcSubscribe"}
              /\ (wsClient' # wsClient \/ sub' # sub)) =>
             /\ wsClient' = sub'
             /\ wsClient' # wsClient
             /\ sub' # sub]_vars

\* after a resubscribe, a bid for a transaction built with the new handle
C23_Witness ==
  /\ reconnects = 1
  /\ wsClient = 2
  /\ sub = 2
  /\ pc = "bidding"
  /\ buildTrace.client = 2
  /\ Len(bidRequests) = 1

\* C24: at most one live subscription delivers into the headers channel,
\* and no handle carries two.  In the loop it is the one main watches;
\* while ReconnectWSClient runs there is none (the old one has ended and a
\* failed attempt leaves none).  A subscription is only ever created on the
\* handle dialled last, by the startup subscribe or by the attempt of
\* ReconnectWSClient that succeeds, which is the last attempt of its call.
C24_AtMostOneActiveSubscription ==
  /\ [](/\ Len(activeSubs) <= 1
        /\ \A i, j \in 1..Len(activeSubs) :
             activeSubs[i] = activeSubs[j] => i = j
        /\ (pc \in {"loopTop", "select", "build", "built", "relayed",
                     "bidding"} /\ sub # 0) => activeSubs = <<sub>>
        /\ pc \in {"rcDial", "rcSubscribe"} => activeSubs = <<>>)
  /\ [][Len(activeSubs') > Len(activeSubs) =>
          /\ pc \in {"subscribe", "rcSubscribe"}
          /\ pc' \in {"authenticate", "loopTop"}
          /\ activeSubs = <<>>
          /\ activeSubs' = <<wsClient'>>
          /\ pc = "rcSubscribe" => (wsClient' # wsClient /\ sub' = wsClient')]_vars

\* a resubscribe whose first attempt failed and whose second succeeded
C24_Witness ==
  /\ reconnects = 1
  /\ rcResult = "pair"
  /\ rcAttempts = 2
  /\ activeSubs = <<2>>
  /\ sub = 2

\* C25: for every header main calls SelfETHTransfer when the configured
\* blob count is 0 and ExecuteBlobTransaction with that count otherwise,
\* whatever the header and whatever happened before; a transaction that
\* comes back is a transfer in the first case and a blob transaction with
\* exactly that many blobs in the second.
C25_BuildKindFollowsBlobCount ==
  pc \in {"built", "relayed", "bidding"} =>
    /\ numBlob = 0 =>
         /\ buildTrace.call = [fn |-> "SelfETHTransfer", numBlobs |-> 0]
         /\ ~signedTx.nil =>
              (buildTrace.txType = 2 /\ buildTrace.blobs = 0)
    /\ numBlob > 0 =>
         /\ buildTrace.call =
              [fn |-> "ExecuteBlobTransaction", numBlobs |-> numBlob]
         /\ ~signedTx.nil =>
              /\ buildTrace.txType = 3
              /\ buildTrace.blobs = numBlob
              /\ buildTrace.blobHashes = numBlob

\* the second header of a run with one blob configured, after the first
\* build had failed: a blob transaction with one blob again
C25_Witness ==
  /\ numBlob = 1
  /\ headersTaken = 2
  /\ err = "none"
  /\ pc = "built"
  /\ buildTrace.txType = 3
  /\ buildTrace.blobs = 1

\* the positions of main before the loop
Startup == {"connectRPC", "connectWS", "subscribe", "authenticate"}

C27_EveryFailureUsesAnAttempt ==
  [][(pc = "rcDial" /\ wsDialFails' = wsDialFails + 1)
       => rcAttempts' = rcAttempts + 1]_vars

\* C28: the block targeted while the delivered header H is in work is H's
\* number plus the offset, also when the chain head has moved on by the time
\* the builder reads the latest header itself.
C28_TargetIsDeliveredHeaderPlusOffset ==
  (pc \in {"built", "relayed", "bidding"} /\ ~signedTx.nil)
    => blockNumber = header + offset

\* C29: with a run duration configured, main blocked at the select after
\* the deadline has passed goes on to return for the deadline, also when the
\* node delivers no further header and reports no subscription error.
C29_StopsOncePastDeadline ==
  (hasDeadline /\ deadlinePassed /\ pc = "select")
    ~> (pc = "returned" /\ term = "deadline")

\* C30: a header delivered after the run-duration deadline has passed is
\* not taken into work: main does not go from the select to the build (and
\* from there to the bid) for it.
C30_NoWorkOnHeaderPastDeadline ==
  [][(pc = "select" /\ hasDeadline /\ deadlinePassed)
       => ~(headersTaken' = headersTaken + 1 /\ pc' = "build")]_vars

\* C31: in non-payload mode a failed relay is only logged: whatever
\* SendBundle returned, main goes on to the hash bid, and the bid is made
\* for the hash of the transaction, the target block and the amount of the
\* header in work, none of which the relay's result enters.
C31_FailedRelayStillBids ==
  [][/\ (pc = "built" /\ ~usePayload /\ ~signedTx.nil /\ pc' # pc)
          => /\ pc' = "relayed"
             /\ Len(relayed') = Len(relayed) + 1
             /\ UNCHANGED <<signedTx, blockNumber, randomEthAmount>>
     /\ (pc = "relayed" /\ pc' # pc)
          => /\ caller' = "SendPreconfBid"
             /\ spbCall' = [input |-> StringInput(TxHashString(signedTx)),
                            blockNumber |-> blockNumber,
                            amount |-> randomEthAmount,
                            currentTime |-> ClockAt(header)]
             /\ Len(sendBidCalls') = 1]_vars

\* the relay failed and the hash bid for the header is being read
C31_Witness ==
  /\ ~usePayload
  /\ err = "relayErr"
  /\ pc = "bidding"
  /\ Len(relayed) = 1
  /\ spbCall.input.type = "string"
  /\ spbCall.blockNumber = blockNumber
  /\ Len(bidRequests) = 1

\* C37: the account made at startup is never changed by a build, a bid, a
\* relay or a reconnect; and nothing computed for one header enters the
\* work on a later one: between two headers the transaction, target block
\* and amount of the last header are gone, every build starts from the same
\* account, and the err main keeps is overwritten by the build before it is
\* read (after a build it tells of that build alone).
C37_IdentityFixedAndNoCarryOver ==
  /\ [](/\ pc \in {"loopTop", "select", "rcDial", "rcSubscribe"} =>
             /\ header = 0
             /\ signedTx = NoTx
             /\ blockNumber = 0
             /\ randomEthAmount = 0
             /\ buildTrace = NoTrace
        /\ pc \in {"build", "built", "relayed", "bidding"} =>
             acct = MainAuthAcct
        /\ pc = "built" =>
             /\ (err = "none") <=> ~signedTx.nil
             /\ signedTx.nil => blockNumber = 0)
  /\ [][(acct \in AuthAccts) => (acct' = acct)]_vars

\* the second header is about to be built on while main's err still holds
\* the relay error of the first
C37_Witness ==
  /\ headersTaken = 2
  /\ pc = "build"
  /\ err = "relayErr"
  /\ signedTx = NoTx
  /\ acct = MainAuthAcct

(***************************************************************************)
(* Properties of the transaction builder.                                  *)
(***************************************************************************)
\* the calls of the build a direct call ran
StepsOf(kind) ==
  IF kind = "SelfETHTransfer" THEN SelfETHTransferSteps
  ELSE ExecuteBlobTransactionSteps

Returned(k) ==
  /\ buildCall.kind = k
  /\ buildCall.res.err = "none"
  /\ ~buildCall.res.panics

\* C16: a SelfTransfer is addressed to the signer's own address, its tip
\* cap is the priority fee supplied, or, when none is supplied, the
\* package default (1, or the value of PRIORITY_FEE_GWEI when the
\* environment sets it), and its fee cap is the base fee of the latest
\* header plus that tip cap.
C16_SelfTransferFields ==
  Returned("SelfETHTransfer") =>
    LET tx == buildCall.res.tx
        fee == buildCall.priorityFeeGwei
    IN /\ tx.to = buildCall.authAcct.address
       /\ tx.to = tx.from
       /\ tx.gasTipCap =
            (IF fee # NilFee THEN fee
             ELSE IF buildCall.envFee = UnsetEnv THEN 1
             ELSE buildCall.envFee)
       /\ tx.gasFeeCap = buildCall.env.baseFee + tx.gasTipCap

\* C16 as stated: the fallback is the fixed value 1
C16_FallbackIsOne ==
  Returned("SelfETHTransfer") =>
    LET tx == buildCall.res.tx
        fee == buildCall.priorityFeeGwei
    IN /\ tx.to = buildCall.authAcct.address
       /\ tx.gasTipCap = (IF fee # NilFee THEN fee ELSE 1)
       /\ tx.gasFeeCap = buildCall.env.baseFee + tx.gasTipCap

\* a transfer built without a priority fee while PRIORITY_FEE_GWEI is 2: its
\* tip cap is 2 and its fee cap is base fee 30 plus 2
C16_Witness ==
  /\ Returned("SelfETHTransfer")
  /\ buildCall.priorityFeeGwei = NilFee
  /\ buildCall.envFee = 2
  /\ buildCall.env.baseFee = 30
  /\ buildCall.res.tx.gasTipCap = 2
  /\ buildCall.res.tx.gasFeeCap = 32
  /\ buildCall.res.tx.to = buildCall.authAcct.address

\* C17: a BlobTransaction built with a priority fee has that fee as its gas
\* tip cap and the latest header's base fee plus that fee as its fee cap,
\* which is the tip cap a SelfTransfer built with the same fee has.
C17_BlobTipCapIsFeeInWei ==
  (Returned("ExecuteBlobTransaction") /\ buildCall.priorityFeeGwei # NilFee) =>
    LET tx == buildCall.res.tx
        fee == buildCall.priorityFeeGwei
    IN /\ tx.gasTipCap = fee
       /\ tx.gasFeeCap = buildCall.env.baseFee + fee
       /\ tx.gasTipCap =
            TransferPriorityFee(fee, InitDefaultPriorityFee(buildCall.envFee))

\* C18: a BlobTransaction built for numBlobs = k carries k blobs, k
\* commitments, k proofs and k blob hashes; at every index the commitment is
\* the one of the blob at that index, the proof the one of that blob under
\* that commitment, and the blob hash the versioned hash of that commitment.
C18_SidecarIndexAligned ==
  Returned("ExecuteBlobTransaction") =>
    LET tx == buildCall.res.tx
        sc == buildCall.res.tx.sidecar
        k == buildCall.numBlobs
    IN /\ Len(sc.blobs) = k
       /\ Len(sc.commitments) = k
       /\ Len(sc.proofs) = k
       /\ Len(tx.blobHashes) = k
       /\ sc.blobs = buildCall.env.blobs
       /\ \A i \in 1..k :
            /\ sc.commitments[i] = [commitmentOf |-> sc.blobs[i]]
            /\ sc.proofs[i] =
                 [proofOf |-> sc.blobs[i], under |-> sc.commitments[i]]
            /\ tx.blobHashes[i] = [version |-> 1, sha256 |-> sc.commitments[i]]

\* a blob transaction built for two different blobs
C18_Witness ==
  /\ Returned("ExecuteBlobTransaction")
  /\ buildCall.numBlobs = 2
  /\ buildCall.env.blobs[1] # buildCall.env.blobs[2]
  /\ Len(buildCall.res.tx.blobHashes) = 2
  /\ buildCall.res.tx.blobHashes[1] # buildCall.res.tx.blobHashes[2]
  /\ buildCall.res.tx.sidecar.commitments[2].commitmentOf
       = buildCall.env.blobs[2]

\* C35: the blob fee cap of a BlobTransaction is the integer part of
\* (f + 1) * 110 / 100, f being the blob base fee computed for the latest
\* header, and it is strictly greater than f.
C35_BlobFeeCapAboveBlobFee ==
  Returned("ExecuteBlobTransaction") =>
    LET cap == buildCall.res.tx.blobFeeCap
        f == buildCall.env.blobFee
    IN /\ 100 * cap <= 110 * (f + 1)
       /\ 110 * (f + 1) < 100 * (cap + 1)
       /\ cap > f

\* a blob transaction built when the blob fee is 9: the cap is 11
C35_Witness ==
  /\ Returned("ExecuteBlobTransaction")
  /\ buildCall.env.blobFee = 9
  /\ buildCall.res.tx.blobFeeCap = 11
  /\ buildCall.numBlobs = 1

C38_MaskShowsAtMostTenCharacters ==
  buildCall.kind = "MaskEndpoint" =>
    LET e == buildCall.endpoint
        o == buildCall.other
        m == buildCall.masked
    IN /\ Len(e) > 10 =>
            /\ Len(m) = 15
            /\ \A i \in 1..10 : m[i] = e[i]
            /\ \A i \in 11..15 : m[i] = "*"
       /\ Len(e) <= 10 => m = <<"*", "*", "*", "*", "*">>
       /\ (/\ Len(e) > 10
           /\ Len(o) > 10
           /\ \A i \in 1..10 : e[i] = o[i])
            => m = buildCall.maskedOther

\* two endpoints with the same first ten characters and different tails
C38_Witness ==
  /\ buildCall.kind = "MaskEndpoint"
  /\ Len(buildCall.endpoint) = 12
  /\ Len(buildCall.other) = 11
  /\ SubSeq(buildCall.endpoint, 1, 10) = SubSeq(buildCall.other, 1, 10)
  /\ buildCall.endpoint[11] # buildCall.other[11]
  /\ buildCall.masked = buildCall.maskedOther

\* C39: every element of a generated blob is a value below the field's
\* modulus, and it is one of the values drawn: bytes that are not below the
\* modulus are rejected and drawn again, not reduced modulo the field order.
C39_ElementIsAnUnreducedDraw ==
  (buildCall.kind = "randFieldElement" /\ ~buildCall.exits) =>
    /\ buildCall.element < FieldModulus
    /\ \E i \in 1..Len(buildCall.draws) :
         /\ buildCall.draws[i] = buildCall.element
         /\ \A k \in 1..(i - 1) : buildCall.draws[k] >= FieldModulus

\* floor(x * 10^18) for a non-negative x, in exact arithmetic
ExactWeiFloor(x) ==
  LET p == MulBits(x.man, WeiPerEth.man)
      e == x.exp + WeiPerEth.exp
  IN IF e >= 0 THEN ShiftLeft(p, e) ELSE ShiftRight(p, 0 - e)

\* C20: the bid amount is the sample raised to the target when it is below
\* it, so it is never below the target, and the integer wei amount sent is
\* at least floor(targetEth * 10^18).
C20_WeiAtLeastTargetFloor ==
  sampling # NoSampling =>
    /\ sampling.randomEthAmount =
         (IF FloatLess(sampling.sample, sampling.target)
            THEN sampling.target ELSE sampling.sample)
    /\ ~FloatLess(sampling.randomEthAmount, sampling.target)
    /\ ~LessBits(sampling.randomWeiAmount, ExactWeiFloor(sampling.target))

\* C21: the integer amount SendPreconfBid puts in the bid request it
\* submits is strictly greater than 0.
C21_BidAmountPositive ==
  sampling # NoSampling =>
    /\ ~sampling.randomEthAmount.neg
    /\ sampling.randomWeiAmount # <<>>

(***************************************************************************)
(* Properties of the bid transport.                                        *)
(***************************************************************************)
\* a decimal digit string read back as a number
RECURSIVE DecValue(_)
DecValue(s) ==
  IF s = <<>> THEN 0
  ELSE 10 * DecValue(SubSeq(s, 1, Len(s) - 1))
         + (CHOOSE d \in 0..9 : DecDigit[d + 1] = s[Len(s)])

\* s is the decimal string of q quarters of an ETH in wei, q * 25 * 10^16:
\* sixteen zeros preceded by the digits of q * 25, no leading zero
IsWeiOfQuarters(s, q) ==
  /\ Len(s) > 16
  /\ \A i \in (Len(s) - 15)..Len(s) : s[i] = "0"
  /\ s[1] # "0"
  /\ DecValue(SubSeq(s, 1, Len(s) - 16)) = q * 25

OneEthInWei ==
  <<"1", "0", "0", "0", "0", "0", "0", "0", "0", "0",
    "0", "0", "0", "0", "0", "0", "0", "0", "0">>

\* C5: SendBid given an input that is neither a list of hash strings nor a
\* list of transactions returns the unsupported-input error: no request is
\* built, the stream is never opened and nothing is read.
C5_UnsupportedInputNeverOpensStream ==
  \A i \in 1..Len(sendBidCalls) :
    sendBidCalls[i].input.type \notin {"[]string", "[]*types.Transaction"} =>
      /\ sendBidErr = "unsupported"
      /\ bidRequests = <<>>
      /\ streamState = "none"
      /\ recvCalls = 0
      /\ bpc = "done"

C5_Witness ==
  /\ caller = "SendBid"
  /\ Len(sendBidCalls) = 1
  /\ sendBidCalls[1].input.type = "int"
  /\ bpc = "done"

\* C6: SendPreconfBid given an input that is neither a hash string nor a
\* transaction never calls SendBid, whatever the block number and amount.
C6_UnsupportedInputNeverCallsSendBid ==
  (caller = "SendPreconfBid"
     /\ spbCall.input.type \notin {"string", "*types.Transaction"}) =>
    /\ sendBidCalls = <<>>
    /\ bidRequests = <<>>
    /\ streamState = "none"
    /\ bpc = "done"

C6_Witness ==
  /\ caller = "SendPreconfBid"
  /\ spbCall.input.type = "int"
  /\ spbCall.blockNumber = BaseBlock + 1
  /\ spbCall.amount = 2
  /\ bpc = "done"

\* C7: SendPreconfBid given a hash string calls SendBid exactly once, with
\* a one-element list holding the hash without its leading "0x", the block
\* number it was given, and the amount in wei as a decimal string (one ETH
\* is "1000000000000000000"); when SendBid has returned the stream,
\* SendPreconfBid has read from it.
C7_HashStringBidCallsSendBidOnce ==
  (caller = "SendPreconfBid" /\ spbCall.input.type = "string") =>
    /\ Len(sendBidCalls) = 1
    /\ LET call == sendBidCalls[1]
           h == spbCall.input.val
       IN /\ call.input.type = "[]string"
          /\ Len(call.input.val) = 1
          /\ \/ h = <<"0", "x">> \o call.input.val[1]
             \/ /\ call.input.val[1] = h
                /\ ~(Len(h) >= 2 /\ SubSeq(h, 1, 2) = <<"0", "x">>)
          /\ call.blockNumber = spbCall.blockNumber
          /\ IsWeiOfQuarters(call.amount, spbCall.amount)
          /\ spbCall.amount = 4 => call.amount = OneEthInWei
    /\ (bpc = "done" /\ sendBidErr = "none") =>
         /\ recvCalls >= 2
         /\ lastRecv # "none"
         /\ streamState \in {"eof", "failed"}

\* the call of the unit test: "0x"-prefixed hash, block 100, one ETH
C7_Witness ==
  /\ caller = "SendPreconfBid"
  /\ spbCall.input.type = "string"
  /\ spbCall.input.val = <<"0", "x", "a", "b", "c">>
  /\ spbCall.blockNumber = BaseBlock
  /\ spbCall.amount = 4
  /\ sendBidCalls =
       << [input |-> StringListInput(<< <<"a", "b", "c">> >>),
           amount |-> OneEthInWei, blockNumber |-> BaseBlock,
           decayStart |-> 0, decayEnd |-> 36000] >>
  /\ bpc = "done"
  /\ sendBidErr = "none"
  /\ lastRecv = "eof"

\* C19: every bid SendPreconfBid submits has the clock reading taken at its
\* entry, in milliseconds, as its decay start, and a decay end exactly
\* 36,000 ms later, whatever the reading; the end is after the start.
C19_DecayWindowIs36Seconds ==
  caller = "SendPreconfBid" =>
    /\ \A i \in 1..Len(sendBidCalls) :
         /\ sendBidCalls[i].decayStart = spbCall.currentTime
         /\ sendBidCalls[i].decayEnd - sendBidCalls[i].decayStart = 36000
    /\ \A i \in 1..Len(bidRequests) :
         /\ bidRequests[i].decayStart = spbCall.currentTime
         /\ bidRequests[i].decayEnd - bidRequests[i].decayStart = 36000
         /\ bidRequests[i].decayEnd > bidRequests[i].decayStart

\* a bid submitted at the largest clock reading
C19_Witness ==
  /\ caller = "SendPreconfBid"
  /\ spbCall.currentTime = MaxClock
  /\ Len(bidRequests) = 1
  /\ bidRequests[1].decayStart = MaxClock
  /\ bidRequests[1].decayEnd = MaxClock + 36000

\* C8: every bid request sent has exactly one of its two payload fields
\* populated, whatever the length of the input list, and a list of hashes
\* never reaches the transaction marshaller.
C8_ExactlyOnePayloadField ==
  /\ \A i \in 1..Len(bidRequests) :
       ~((bidRequests[i].txHashes # <<>>)
           <=> (bidRequests[i].rawTransactions # <<>>))
  /\ \A i \in 1..Len(sendBidCalls) :
       sendBidCalls[i].input.type = "[]string" => marshalCalls = 0

\* C9: a read of the response stream that fails ends SendBid's receive
\* loop: the loop is left by the step that sees the error.
C9_RecvErrorEndsReceiveLoop ==
  [][(bpc = "recvLoop" /\ lastRecv' = "err" /\ streamState' = "failed") =>
       bpc' # "recvLoop"]_vars

\* C32: when marshalling a transaction fails or the bid stream cannot be
\* opened, SendBid returns the error with no stream and reads nothing, and
\* SendPreconfBid returns without a read of its own; a transaction list
\* holding a transaction that cannot be marshalled gives the marshal error,
\* and then no request is handed to the bidder service at all.
C32_FailedBidOpensAndReadsNothing ==
  /\ sendBidErr \in {"marshal", "open"} =>
       /\ streamState = "none"
       /\ recvCalls = 0
       /\ lastRecv = "none"
       /\ accepted = 0
       /\ bpc = "done"
  /\ sendBidErr = "marshal" => bidRequests = <<>>
  /\ sendBidErr = "open" => Len(bidRequests) = 1
  /\ \A i \in 1..Len(sendBidCalls) :
       (/\ sendBidCalls[i].input.type = "[]*types.Transaction"
        /\ \E n \in 1..Len(sendBidCalls[i].input.val) :
             ~sendBidCalls[i].input.val[n].marshalOK)
         => sendBidErr = "marshal"

\* SendPreconfBid was given a transaction MarshalBinary rejects and has
\* returned
C32_Witness ==
  /\ caller = "SendPreconfBid"
  /\ spbCall.input.type = "*types.Transaction"
  /\ ~spbCall.input.val.nil
  /\ sendBidErr = "marshal"
  /\ marshalCalls = 1
  /\ bpc = "done"

=============================================================================
